---- MODULE Spec2Model ----
(***************************************************************************)
(* A model of assistantkit's hooks adapters (claude, cursor, windsurf),    *)
(* the canonical hooks Config, and the adapter registries.                 *)
(*                                                                         *)
(* Go maps are functions over the set of keys present; Go slices are       *)
(* sequences; a nil slice and an empty slice are both << >>.  JSON bytes    *)
(* are documents: functions from the keys that the encoder emitted to      *)
(* their values, so that omitempty and missing keys are visible.           *)
(***************************************************************************)
EXTENDS Integers, Sequences, FiniteSets, TLC

----------------------------------------------------------------------------
(* Generic helpers for Go maps and slices *)

EmptyMap == [x \in {} |-> x]

\* a nil map: it reads as an empty one, and an assignment to an entry of it panics
NilMap == [nil |-> TRUE]

\* the keys a range loop, len or delete finds in a map
Keys(m) == IF m = NilMap THEN {} ELSE DOMAIN m

MapGet(m, k) == IF k \in Keys(m) THEN m[k] ELSE << >>

MapPut(m, k, v) == [x \in (DOMAIN m) \cup {k} |-> IF x = k THEN v ELSE m[x]]

Range(s) == {s[i] : i \in DOMAIN s}

\* every order in which a range loop may visit the keys of a Go map
Orders(S) == {o \in [1..Cardinality(S) -> S] : \A i, j \in 1..Cardinality(S) : o[i] = o[j] => i = j}

RECURSIVE Flatten(_)
Flatten(ss) == IF ss = << >> THEN << >> ELSE Head(ss) \o Flatten(Tail(ss))

----------------------------------------------------------------------------
(* hooks/core/event.go *)

\* the canonical events, by the names of their constants
Event ==
    [ BeforeFileRead  |-> "before_file_read",
      AfterFileRead   |-> "after_file_read",
      BeforeFileWrite |-> "before_file_write",
      AfterFileWrite  |-> "after_file_write",
      BeforeCommand   |-> "before_command",
      AfterCommand    |-> "after_command",
      BeforeMCP       |-> "before_mcp",
      AfterMCP        |-> "after_mcp",
      BeforePrompt    |-> "before_prompt",
      OnStop          |-> "on_stop",
      OnSessionStart  |-> "on_session_start",
      OnSessionEnd    |-> "on_session_end",
      AfterResponse   |-> "after_response",
      AfterThought    |-> "after_thought",
      OnPermission    |-> "on_permission",
      OnNotification  |-> "on_notification",
      BeforeCompact   |-> "before_compact",
      OnSubagentStop  |-> "on_subagent_stop",
      BeforeTabRead   |-> "before_tab_read",
      AfterTabEdit    |-> "after_tab_edit" ]

AllEvents ==
    << Event.BeforeFileRead, Event.AfterFileRead, Event.BeforeFileWrite, Event.AfterFileWrite,
       Event.BeforeCommand, Event.AfterCommand, Event.BeforeMCP, Event.AfterMCP, Event.BeforePrompt,
       Event.OnStop, Event.OnSessionStart, Event.OnSessionEnd, Event.AfterResponse, Event.AfterThought,
       Event.OnPermission, Event.OnNotification, Event.BeforeCompact, Event.OnSubagentStop,
       Event.BeforeTabRead, Event.AfterTabEdit >>

ToolSupport(cl, cu, ws) == [Claude |-> cl, Cursor |-> cu, Windsurf |-> ws]

GetToolSupport(e) ==
    CASE e = Event.BeforeFileRead  -> ToolSupport(TRUE, TRUE, TRUE)
      [] e = Event.AfterFileRead   -> ToolSupport(TRUE, FALSE, TRUE)
      [] e = Event.BeforeFileWrite -> ToolSupport(TRUE, FALSE, TRUE)
      [] e = Event.AfterFileWrite  -> ToolSupport(TRUE, TRUE, TRUE)
      [] e = Event.BeforeCommand   -> ToolSupport(TRUE, TRUE, TRUE)
      [] e = Event.AfterCommand    -> ToolSupport(TRUE, TRUE, TRUE)
      [] e = Event.BeforeMCP       -> ToolSupport(TRUE, TRUE, TRUE)
      [] e = Event.AfterMCP        -> ToolSupport(TRUE, TRUE, TRUE)
      [] e = Event.BeforePrompt    -> ToolSupport(TRUE, TRUE, TRUE)
      [] e = Event.OnStop          -> ToolSupport(TRUE, TRUE, FALSE)
      [] e = Event.OnSessionStart  -> ToolSupport(TRUE, FALSE, FALSE)
      [] e = Event.OnSessionEnd    -> ToolSupport(TRUE, FALSE, FALSE)
      [] e = Event.AfterResponse   -> ToolSupport(FALSE, TRUE, FALSE)
      [] e = Event.AfterThought    -> ToolSupport(FALSE, TRUE, FALSE)
      [] e = Event.OnPermission    -> ToolSupport(TRUE, FALSE, FALSE)
      [] e = Event.OnNotification  -> ToolSupport(TRUE, FALSE, FALSE)
      [] e = Event.BeforeCompact   -> ToolSupport(TRUE, FALSE, FALSE)
      [] e = Event.OnSubagentStop  -> ToolSupport(TRUE, FALSE, FALSE)
      [] e = Event.BeforeTabRead   -> ToolSupport(FALSE, TRUE, FALSE)
      [] e = Event.AfterTabEdit    -> ToolSupport(FALSE, TRUE, FALSE)
      [] OTHER               -> ToolSupport(FALSE, FALSE, FALSE)

----------------------------------------------------------------------------
(* hooks/core/hook.go *)

HookTypeCommand == "command"
HookTypePrompt  == "prompt"

\* the zero value of core.Hook
Hook == [Type |-> "", Command |-> "", Prompt |-> "", Timeout |-> 0,
         ShowOutput |-> FALSE, WorkingDir |-> ""]

NewCommandHook(command) == [Hook EXCEPT !.Type = HookTypeCommand, !.Command = command]

NewPromptHook(prompt) == [Hook EXCEPT !.Type = HookTypePrompt, !.Prompt = prompt]

WithTimeout(h, seconds) == [h EXCEPT !.Timeout = seconds]

WithShowOutput(h, show) == [h EXCEPT !.ShowOutput = show]

IsCommand(h) == h.Type = HookTypeCommand \/ (h.Type = "" /\ h.Command # "")

IsPrompt(h) == h.Type = HookTypePrompt

ErrNoCommandOrPrompt == [kind |-> "ErrNoCommandOrPrompt"]

ErrBothCommandAndPrompt == [kind |-> "ErrBothCommandAndPrompt"]

\* mutant: a hook with both a command and a prompt passes
Hook_Validate_AllowsBoth(h) ==
    IF h.Command = "" /\ h.Prompt = "" THEN ErrNoCommandOrPrompt
    ELSE [kind |-> "nil"]

Hook_Validate(h) ==
    IF h.Command = "" /\ h.Prompt = "" THEN ErrNoCommandOrPrompt
    ELSE IF h.Command # "" /\ h.Prompt # "" THEN ErrBothCommandAndPrompt
    ELSE [kind |-> "nil"]

HookEntry(matcher, hooks) == [Matcher |-> matcher, Hooks |-> hooks]

----------------------------------------------------------------------------
(* hooks/core/config.go *)

NewConfig == [Version |-> 0, Hooks |-> EmptyMap,
              DisableAllHooks |-> FALSE, AllowManagedHooksOnly |-> FALSE]

\* index of the first entry with this matcher, 0 when there is none
FindMatcher(entries, matcher) ==
    IF \E i \in DOMAIN entries : entries[i].Matcher = matcher
    THEN CHOOSE i \in DOMAIN entries :
            /\ entries[i].Matcher = matcher
            /\ \A j \in DOMAIN entries : entries[j].Matcher = matcher => i <= j
    ELSE 0

AddHookWithMatcher(c, event, matcher, hook) ==
    LET hooks   == IF c.Hooks = NilMap THEN EmptyMap ELSE c.Hooks
        entries == MapGet(hooks, event)
        i       == FindMatcher(entries, matcher)
    IN  IF i # 0
        THEN [c EXCEPT !.Hooks = MapPut(hooks, event,
                 [entries EXCEPT ![i].Hooks = Append(entries[i].Hooks, hook)])]
        ELSE [c EXCEPT !.Hooks = MapPut(hooks, event,
                 Append(entries, HookEntry(matcher, << hook >>)))]

AddHook(c, event, hook) == AddHookWithMatcher(c, event, "", hook)

GetAllHooksForEvent(c, event) ==
    Flatten([i \in DOMAIN MapGet(c.Hooks, event) |-> MapGet(c.Hooks, event)[i].Hooks])

RECURSIVE CountEntries(_)
CountEntries(entries) ==
    IF entries = << >> THEN 0
    ELSE Len(Head(entries).Hooks) + CountEntries(Tail(entries))

RECURSIVE CountOver(_, _)
CountOver(hooks, keys) ==
    IF keys = {} THEN 0
    ELSE LET k == CHOOSE x \in keys : TRUE
         IN  CountEntries(hooks[k]) + CountOver(hooks, keys \ {k})

HookCount(c) == CountOver(c.Hooks, Keys(c.Hooks))

\* a nil *Config
NilConfig == [nil |-> TRUE]

\* the positions << entry, hook >> of an event's entries, counted from 1
HookSlots(entries) ==
    UNION { {<< i, j >> : j \in DOMAIN entries[i].Hooks} : i \in DOMAIN entries }

HasHooks(c) == Keys(c.Hooks) # {}

\* mutant: the entries of other come before those of c
RECURSIVE MergeLoop_Prepend(_, _, _)
MergeLoop_Prepend(hooks, other, order) ==
    IF order = << >> THEN hooks
    ELSE MergeLoop_Prepend(MapPut(hooks, Head(order),
                                  other[Head(order)] \o MapGet(hooks, Head(order))),
                           other, Tail(order))

\* the loop of Merge over other.Hooks, visited in the given order
RECURSIVE MergeLoop(_, _, _)
MergeLoop(hooks, other, order) ==
    IF order = << >> THEN hooks
    ELSE MergeLoop(MapPut(hooks, Head(order), MapGet(hooks, Head(order)) \o other[Head(order)]),
                   other, Tail(order))

\* what the runtime raises for c.Hooks[event] = ... on a nil map
NilMapPanic == [panic |-> "assignment to entry in nil map"]

\* the loop comes first: with a nil c.Hooks its first assignment panics
Merge(c, other, order) ==
    IF other = NilConfig THEN c
    ELSE IF c.Hooks = NilMap /\ order # << >> THEN NilMapPanic
    ELSE [c EXCEPT !.Hooks = MergeLoop(c.Hooks, other.Hooks, order),
                   !.DisableAllHooks = c.DisableAllHooks \/ other.DisableAllHooks,
                   !.AllowManagedHooksOnly = c.AllowManagedHooksOnly \/ other.AllowManagedHooksOnly]

RemoveHooks(c, event) ==
    IF c.Hooks = NilMap THEN c
    ELSE [c EXCEPT !.Hooks = [e \in DOMAIN c.Hooks \ {event} |-> c.Hooks[e]]]

\* mutant: the case of windsurf reads the field of cursor
SupportedBy_WindsurfAsCursor(support, t) ==
    CASE t = "claude"   -> support.Claude
      [] t = "cursor"   -> support.Cursor
      [] t = "windsurf" -> support.Cursor
      [] OTHER          -> FALSE

\* the switch of FilterByTool: the field of the ToolSupport that a tool name selects
SupportedBy(support, t) ==
    CASE t = "claude"   -> support.Claude
      [] t = "cursor"   -> support.Cursor
      [] t = "windsurf" -> support.Windsurf
      [] OTHER          -> FALSE

FilterByTool(c, t) ==
    [Version |-> c.Version,
     Hooks   |-> [e \in {x \in Keys(c.Hooks) : SupportedBy(GetToolSupport(x), t)} |-> c.Hooks[e]],
     DisableAllHooks |-> c.DisableAllHooks,
     AllowManagedHooksOnly |-> c.AllowManagedHooksOnly]

\* filtered.Hooks[event] = entries: the events whose entries slice the result
\* of FilterByTool has in common with c, array and all
FilterByTool_Shares(c, t) == DOMAIN FilterByTool(c, t).Hooks

\* AddHookWithMatcher finds the matcher and assigns entries[i].Hooks, an
\* element of the array behind c.Hooks[event]
AddHookWithMatcher_InPlace(c, event, matcher) ==
    FindMatcher(MapGet(c.Hooks, event), matcher) # 0

\* a Config that has the entries of the events in common with c, after
\* c.AddHookWithMatcher: an assignment to entries[i].Hooks is an assignment to
\* its element too
AddHookWithMatcher_Seen(view, common, c, event, matcher, hook) ==
    IF event \in common /\ AddHookWithMatcher_InPlace(c, event, matcher)
    THEN [view EXCEPT !.Hooks[event] = AddHookWithMatcher(c, event, matcher, hook).Hooks[event]]
    ELSE view

HookValidationError(event, entryIndex, hookIndex, err) ==
    [kind |-> "HookValidationError", Event |-> event, EntryIndex |-> entryIndex,
     HookIndex |-> hookIndex, Err |-> err]

\* the positions << i, j >> of the hooks of an event that Hook.Validate rejects
InvalidAt(entries) ==
    {ij \in HookSlots(entries) : Hook_Validate(entries[ij[1]].Hooks[ij[2]]).kind # "nil"}

\* the first of them that the loops over entries and hooks come to
FirstInvalid(entries) ==
    CHOOSE ij \in InvalidAt(entries) :
        \A kl \in InvalidAt(entries) : ij[1] < kl[1] \/ (ij[1] = kl[1] /\ ij[2] <= kl[2])

\* Config.Validate, the events visited in the given order; indices count from 0
RECURSIVE Validate(_, _)
Validate(c, order) ==
    IF order = << >> THEN [kind |-> "nil"]
    ELSE LET event   == Head(order)
             entries == c.Hooks[event]
         IN  IF InvalidAt(entries) # {}
             THEN LET ij == FirstInvalid(entries)
                  IN  HookValidationError(event, ij[1] - 1, ij[2] - 1,
                                          Hook_Validate(entries[ij[1]].Hooks[ij[2]]))
             ELSE Validate(c, Tail(order))

----------------------------------------------------------------------------
(* JSON documents.  Bytes are either malformed or carry a document; a     *)
(* document is a function from the keys present to their values.          *)

Bytes(doc) == [valid |-> TRUE, doc |-> doc]

MalformedBytes == [valid |-> FALSE, doc |-> EmptyMap]

\* a key that the encoder leaves out when the value is the zero value
OmitEmpty(key, value, zero) == IF value = zero THEN EmptyMap ELSE key :> value

\* a string, number or flag read by the decoder: the zero value when absent
Field(obj, key, zero) == IF key \in DOMAIN obj THEN obj[key] ELSE zero

ParseError(format, path) == [kind |-> "ParseError", Format |-> format, Path |-> path]

NoError == [kind |-> "nil"]

----------------------------------------------------------------------------
(* hooks/claude/config.go *)

PreToolUse        == "PreToolUse"
PostToolUse       == "PostToolUse"

claude_AdapterName == "claude"

claude_NewConfig == [Hooks |-> EmptyMap, DisableAllHooks |-> FALSE,
                     AllowManagedHooksOnly |-> FALSE]

claude_eventMapping ==
    (Event.BeforeFileRead :> PreToolUse) @@ (Event.AfterFileRead :> PostToolUse) @@
    (Event.BeforeFileWrite :> PreToolUse) @@ (Event.AfterFileWrite :> PostToolUse) @@
    (Event.BeforeCommand :> PreToolUse) @@ (Event.AfterCommand :> PostToolUse) @@
    (Event.BeforeMCP :> PreToolUse) @@ (Event.AfterMCP :> PostToolUse) @@
    (Event.BeforePrompt :> "UserPromptSubmit") @@ (Event.OnStop :> "Stop") @@
    (Event.OnSessionStart :> "SessionStart") @@ (Event.OnSessionEnd :> "SessionEnd") @@
    (Event.OnPermission :> "PermissionRequest") @@ (Event.OnNotification :> "Notification") @@
    (Event.BeforeCompact :> "PreCompact") @@ (Event.OnSubagentStop :> "SubagentStop")

claude_reverseEventMapping ==
    ("UserPromptSubmit" :> Event.BeforePrompt) @@ ("Stop" :> Event.OnStop) @@
    ("SessionStart" :> Event.OnSessionStart) @@ ("SessionEnd" :> Event.OnSessionEnd) @@
    ("PermissionRequest" :> Event.OnPermission) @@ ("Notification" :> Event.OnNotification) @@
    ("PreCompact" :> Event.BeforeCompact) @@ ("SubagentStop" :> Event.OnSubagentStop)

matcherToCanonicalEventBefore ==
    ("Read" :> Event.BeforeFileRead) @@ ("Write" :> Event.BeforeFileWrite) @@
    ("Edit" :> Event.BeforeFileWrite) @@ ("Write|Edit" :> Event.BeforeFileWrite) @@
    ("Bash" :> Event.BeforeCommand)

matcherToCanonicalEventAfter ==
    ("Read" :> Event.AfterFileRead) @@ ("Write" :> Event.AfterFileWrite) @@
    ("Edit" :> Event.AfterFileWrite) @@ ("Write|Edit" :> Event.AfterFileWrite) @@
    ("Bash" :> Event.AfterCommand)

canonicalEventToMatcher ==
    (Event.BeforeFileRead :> "Read") @@ (Event.AfterFileRead :> "Read") @@
    (Event.BeforeFileWrite :> "Write|Edit") @@ (Event.AfterFileWrite :> "Write|Edit") @@
    (Event.BeforeCommand :> "Bash") @@ (Event.AfterCommand :> "Bash")

claude_SupportedEvents ==
    << Event.BeforeFileRead, Event.AfterFileRead, Event.BeforeFileWrite, Event.AfterFileWrite,
       Event.BeforeCommand, Event.AfterCommand, Event.BeforeMCP, Event.AfterMCP, Event.BeforePrompt,
       Event.OnStop, Event.OnSessionStart, Event.OnSessionEnd, Event.OnPermission, Event.OnNotification,
       Event.BeforeCompact, Event.OnSubagentStop >>

\* mutant: PostToolUse looks its matcher up in the table of PreToolUse
claudeToCanonicalEvent_OneTable(claudeEvent, matcher) ==
    IF claudeEvent \in DOMAIN claude_reverseEventMapping
    THEN claude_reverseEventMapping[claudeEvent]
    ELSE IF claudeEvent = PreToolUse
    THEN IF matcher \in DOMAIN matcherToCanonicalEventBefore
         THEN matcherToCanonicalEventBefore[matcher]
         ELSE Event.BeforeMCP
    ELSE IF claudeEvent = PostToolUse
    THEN IF matcher \in DOMAIN matcherToCanonicalEventBefore
         THEN matcherToCanonicalEventBefore[matcher]
         ELSE Event.AfterMCP
    ELSE ""

claudeToCanonicalEvent(claudeEvent, matcher) ==
    IF claudeEvent \in DOMAIN claude_reverseEventMapping
    THEN claude_reverseEventMapping[claudeEvent]
    ELSE IF claudeEvent = PreToolUse
    THEN IF matcher \in DOMAIN matcherToCanonicalEventBefore
         THEN matcherToCanonicalEventBefore[matcher]
         ELSE Event.BeforeMCP
    ELSE IF claudeEvent = PostToolUse
    THEN IF matcher \in DOMAIN matcherToCanonicalEventAfter
         THEN matcherToCanonicalEventAfter[matcher]
         ELSE Event.AfterMCP
    ELSE ""

\* << claude event, default matcher >>, both "" when Claude has no such event
canonicalToClaudeEvent(event) ==
    IF ~GetToolSupport(event).Claude
    THEN << "", "" >>
    ELSE LET matcher == Field(canonicalEventToMatcher, event, "")
         IN  IF event \in DOMAIN claude_eventMapping
             THEN << claude_eventMapping[event], matcher >>
             ELSE << "", "" >>

claude_ToCoreHook(h) ==
    [Hook EXCEPT !.Command = h.Command, !.Prompt = h.Prompt, !.Timeout = h.Timeout,
                 !.Type = IF h.Type = "command" THEN HookTypeCommand
                          ELSE IF h.Type = "prompt" THEN HookTypePrompt
                          ELSE ""]

\* mutant: a new entry is put in front of the event's entries instead of behind
RECURSIVE claude_ToCoreEntries_Prepend(_, _, _)
claude_ToCoreEntries_Prepend(hooks, claudeEvent, entries) ==
    IF entries = << >> THEN hooks
    ELSE LET entry          == Head(entries)
             canonicalEvent == claudeToCanonicalEvent(claudeEvent, entry.Matcher)
             coreHooks      == [j \in DOMAIN entry.Hooks |-> claude_ToCoreHook(entry.Hooks[j])]
         IN  claude_ToCoreEntries_Prepend(
                 MapPut(hooks, canonicalEvent,
                        << HookEntry(entry.Matcher, coreHooks) >> \o
                        MapGet(hooks, canonicalEvent)),
                 claudeEvent, Tail(entries))

RECURSIVE claude_ToCoreEntries(_, _, _)
claude_ToCoreEntries(hooks, claudeEvent, entries) ==
    IF entries = << >> THEN hooks
    ELSE LET entry          == Head(entries)
             canonicalEvent == claudeToCanonicalEvent(claudeEvent, entry.Matcher)
             coreHooks      == [j \in DOMAIN entry.Hooks |-> claude_ToCoreHook(entry.Hooks[j])]
         IN  claude_ToCoreEntries(
                 MapPut(hooks, canonicalEvent,
                        Append(MapGet(hooks, canonicalEvent),
                               HookEntry(entry.Matcher, coreHooks))),
                 claudeEvent, Tail(entries))

RECURSIVE claude_ToCoreLoop(_, _, _)
claude_ToCoreLoop(claudeCfg, order, hooks) ==
    IF order = << >> THEN hooks
    ELSE claude_ToCoreLoop(claudeCfg, Tail(order),
             claude_ToCoreEntries(hooks, Head(order), claudeCfg.Hooks[Head(order)]))

\* order: the order in which the range loop visits the native events
claude_ToCore(claudeCfg, order) ==
    [NewConfig EXCEPT !.DisableAllHooks = claudeCfg.DisableAllHooks,
                      !.AllowManagedHooksOnly = claudeCfg.AllowManagedHooksOnly,
                      !.Hooks = claude_ToCoreLoop(claudeCfg, order, EmptyMap)]

\* mutant: the type tag is copied and never inferred from the payload
claude_FromCoreHook_NoInference(h) ==
    [Command |-> h.Command, Prompt |-> h.Prompt, Timeout |-> h.Timeout,
     Type |-> IF h.Type = HookTypeCommand THEN "command"
              ELSE IF h.Type = HookTypePrompt THEN "prompt"
              ELSE ""]

claude_FromCoreHook(h) ==
    [Command |-> h.Command, Prompt |-> h.Prompt, Timeout |-> h.Timeout,
     Type |-> IF h.Type = HookTypeCommand THEN "command"
              ELSE IF h.Type = HookTypePrompt THEN "prompt"
              ELSE IF h.Command # "" THEN "command"
              ELSE IF h.Prompt # "" THEN "prompt"
              ELSE ""]

\* mutant: the default matcher of the event replaces the entry's own
claude_FromCoreEntry_DefaultOnly(entry, matcher) ==
    [Matcher |-> matcher,
     Hooks   |-> [j \in DOMAIN entry.Hooks |-> claude_FromCoreHook(entry.Hooks[j])]]

claude_FromCoreEntry(entry, matcher) ==
    [Matcher |-> IF entry.Matcher = "" THEN matcher ELSE entry.Matcher,
     Hooks   |-> [j \in DOMAIN entry.Hooks |-> claude_FromCoreHook(entry.Hooks[j])]]

\* mutant: an event Claude does not have is not skipped
RECURSIVE claude_FromCoreLoop_NoSkip(_, _, _)
claude_FromCoreLoop_NoSkip(cfg, order, hooks) ==
    IF order = << >> THEN hooks
    ELSE LET event   == Head(order)
             entries == cfg.Hooks[event]
             ce      == canonicalToClaudeEvent(event)
         IN  IF entries = << >>
             THEN claude_FromCoreLoop_NoSkip(cfg, Tail(order), hooks)
             ELSE claude_FromCoreLoop_NoSkip(cfg, Tail(order),
                      MapPut(hooks, ce[1],
                             MapGet(hooks, ce[1]) \o
                             [i \in DOMAIN entries |-> claude_FromCoreEntry(entries[i], ce[2])]))

RECURSIVE claude_FromCoreLoop(_, _, _)
claude_FromCoreLoop(cfg, order, hooks) ==
    IF order = << >> THEN hooks
    ELSE LET event   == Head(order)
             entries == cfg.Hooks[event]
             ce      == canonicalToClaudeEvent(event)
         IN  IF ce[1] = "" \/ entries = << >>
             THEN claude_FromCoreLoop(cfg, Tail(order), hooks)
             ELSE claude_FromCoreLoop(cfg, Tail(order),
                      MapPut(hooks, ce[1],
                             MapGet(hooks, ce[1]) \o
                             [i \in DOMAIN entries |-> claude_FromCoreEntry(entries[i], ce[2])]))

\* order: the order in which the range loop visits the canonical events
claude_FromCore(cfg, order) ==
    [claude_NewConfig EXCEPT !.DisableAllHooks = cfg.DisableAllHooks,
                             !.AllowManagedHooksOnly = cfg.AllowManagedHooksOnly,
                             !.Hooks = claude_FromCoreLoop(cfg, order, EmptyMap)]

\* json.MarshalIndent of claude.Config, by the struct tags of Config, HookEntry, Hook
claude_EncodeHook(h) ==
    ("type" :> h.Type) @@ OmitEmpty("command", h.Command, "") @@
    OmitEmpty("prompt", h.Prompt, "") @@ OmitEmpty("timeout", h.Timeout, 0)

claude_EncodeEntry(entry) ==
    OmitEmpty("matcher", entry.Matcher, "") @@
    ("hooks" :> [j \in DOMAIN entry.Hooks |-> claude_EncodeHook(entry.Hooks[j])])

claude_Encode(claudeCfg) ==
    (IF DOMAIN claudeCfg.Hooks = {} THEN EmptyMap
     ELSE "hooks" :> [ne \in DOMAIN claudeCfg.Hooks |->
                        [i \in DOMAIN claudeCfg.Hooks[ne] |->
                            claude_EncodeEntry(claudeCfg.Hooks[ne][i])]]) @@
    OmitEmpty("disableAllHooks", claudeCfg.DisableAllHooks, FALSE) @@
    OmitEmpty("allowManagedHooksOnly", claudeCfg.AllowManagedHooksOnly, FALSE)

\* json.Unmarshal into claude.Config: keys it does not know are ignored
claude_DecodeHook(obj) ==
    [Type |-> Field(obj, "type", ""), Command |-> Field(obj, "command", ""),
     Prompt |-> Field(obj, "prompt", ""), Timeout |-> Field(obj, "timeout", 0)]

claude_DecodeEntry(obj) ==
    [Matcher |-> Field(obj, "matcher", ""),
     Hooks   |-> LET hs == Field(obj, "hooks", << >>)
                 IN  [j \in DOMAIN hs |-> claude_DecodeHook(hs[j])]]

claude_Decode(doc) ==
    [Hooks |-> LET m == Field(doc, "hooks", EmptyMap)
               IN  [ne \in DOMAIN m |-> [i \in DOMAIN m[ne] |-> claude_DecodeEntry(m[ne][i])]],
     DisableAllHooks |-> Field(doc, "disableAllHooks", FALSE),
     AllowManagedHooksOnly |-> Field(doc, "allowManagedHooksOnly", FALSE)]

\* << bytes, error >>
claude_Marshal(cfg, order) == << Bytes(claude_Encode(claude_FromCore(cfg, order))), NoError >>

\* << config, error >>
claude_Parse(data, order) ==
    IF ~data.valid
    THEN << NewConfig, ParseError(claude_AdapterName, "") >>
    ELSE << claude_ToCore(claude_Decode(data.doc), order), NoError >>

----------------------------------------------------------------------------
(* hooks/cursor *)

cursor_AdapterName == "cursor"

cursor_NewConfig == [Version |-> 1, Hooks |-> EmptyMap]

cursor_eventMapping ==
    (Event.BeforeFileRead :> "beforeReadFile") @@ (Event.AfterFileWrite :> "afterFileEdit") @@
    (Event.BeforeCommand :> "beforeShellExecution") @@ (Event.AfterCommand :> "afterShellExecution") @@
    (Event.BeforeMCP :> "beforeMCPExecution") @@ (Event.AfterMCP :> "afterMCPExecution") @@
    (Event.BeforePrompt :> "beforeSubmitPrompt") @@ (Event.OnStop :> "stop") @@
    (Event.AfterResponse :> "afterAgentResponse") @@ (Event.AfterThought :> "afterAgentThought") @@
    (Event.BeforeTabRead :> "beforeTabFileRead") @@ (Event.AfterTabEdit :> "afterTabFileEdit")

cursor_reverseEventMapping ==
    ("beforeShellExecution" :> Event.BeforeCommand) @@ ("afterShellExecution" :> Event.AfterCommand) @@
    ("beforeMCPExecution" :> Event.BeforeMCP) @@ ("afterMCPExecution" :> Event.AfterMCP) @@
    ("beforeReadFile" :> Event.BeforeFileRead) @@ ("afterFileEdit" :> Event.AfterFileWrite) @@
    ("beforeSubmitPrompt" :> Event.BeforePrompt) @@ ("afterAgentResponse" :> Event.AfterResponse) @@
    ("afterAgentThought" :> Event.AfterThought) @@ ("stop" :> Event.OnStop) @@
    ("beforeTabFileRead" :> Event.BeforeTabRead) @@ ("afterTabFileEdit" :> Event.AfterTabEdit)

cursor_SupportedEvents ==
    << Event.BeforeFileRead, Event.AfterFileWrite, Event.BeforeCommand, Event.AfterCommand, Event.BeforeMCP, Event.AfterMCP,
       Event.BeforePrompt, Event.OnStop, Event.AfterResponse, Event.AfterThought, Event.BeforeTabRead, Event.AfterTabEdit >>

RECURSIVE cursor_ToCoreLoop(_, _, _)
cursor_ToCoreLoop(cursorCfg, order, hooks) ==
    IF order = << >> THEN hooks
    ELSE LET cursorEvent == Head(order)
             native      == cursorCfg.Hooks[cursorEvent]
         IN  IF cursorEvent \notin DOMAIN cursor_reverseEventMapping
             THEN cursor_ToCoreLoop(cursorCfg, Tail(order), hooks)
             ELSE LET canonicalEvent == cursor_reverseEventMapping[cursorEvent]
                      coreHooks == [j \in DOMAIN native |->
                                       [Hook EXCEPT !.Type = HookTypeCommand,
                                                    !.Command = native[j].Command]]
                  IN  cursor_ToCoreLoop(cursorCfg, Tail(order),
                          MapPut(hooks, canonicalEvent,
                                 Append(MapGet(hooks, canonicalEvent),
                                        HookEntry("", coreHooks))))

cursor_ToCore(cursorCfg, order) ==
    [NewConfig EXCEPT !.Version = cursorCfg.Version,
                      !.Hooks = cursor_ToCoreLoop(cursorCfg, order, EmptyMap)]

\* mutant: every hook is emitted, whether or not it has a command
cursor_FromCoreHooks_NoFilter(hs) == [i \in DOMAIN hs |-> [Command |-> hs[i].Command]]

\* mutant: the hooks of an entry are emitted last to first
RECURSIVE cursor_FromCoreHooks_Reversed(_)
cursor_FromCoreHooks_Reversed(hs) ==
    IF hs = << >> THEN << >>
    ELSE cursor_FromCoreHooks_Reversed(Tail(hs)) \o
         (IF Head(hs).Command # "" THEN << [Command |-> Head(hs).Command] >> ELSE << >>)

\* the hooks of one entry that Cursor can carry, in order
RECURSIVE cursor_FromCoreHooks(_)
cursor_FromCoreHooks(hs) ==
    IF hs = << >> THEN << >>
    ELSE (IF Head(hs).Command # "" THEN << [Command |-> Head(hs).Command] >> ELSE << >>)
         \o cursor_FromCoreHooks(Tail(hs))

RECURSIVE cursor_FromCoreLoop(_, _, _)
cursor_FromCoreLoop(cfg, order, hooks) ==
    IF order = << >> THEN hooks
    ELSE LET event   == Head(order)
             entries == cfg.Hooks[event]
             emitted == Flatten([i \in DOMAIN entries |-> cursor_FromCoreHooks(entries[i].Hooks)])
         IN  IF event \notin DOMAIN cursor_eventMapping \/ emitted = << >>
             THEN cursor_FromCoreLoop(cfg, Tail(order), hooks)
             ELSE cursor_FromCoreLoop(cfg, Tail(order),
                      MapPut(hooks, cursor_eventMapping[event],
                             MapGet(hooks, cursor_eventMapping[event]) \o emitted))

cursor_FromCore(cfg, order) ==
    [cursor_NewConfig EXCEPT !.Version = IF cfg.Version > 0 THEN cfg.Version ELSE @,
                             !.Hooks = cursor_FromCoreLoop(cfg, order, EmptyMap)]

\* json.MarshalIndent of cursor.Config: no key is omitempty
cursor_Encode(cursorCfg) ==
    ("version" :> cursorCfg.Version) @@
    ("hooks" :> [ne \in DOMAIN cursorCfg.Hooks |->
                    [i \in DOMAIN cursorCfg.Hooks[ne] |->
                        ("command" :> cursorCfg.Hooks[ne][i].Command)]])

cursor_Decode(doc) ==
    [Version |-> Field(doc, "version", 0),
     Hooks   |-> LET m == Field(doc, "hooks", EmptyMap)
                 IN  [ne \in DOMAIN m |->
                        [i \in DOMAIN m[ne] |-> [Command |-> Field(m[ne][i], "command", "")]]]]

cursor_Marshal(cfg, order) == << Bytes(cursor_Encode(cursor_FromCore(cfg, order))), NoError >>

cursor_Parse(data, order) ==
    IF ~data.valid
    THEN << NewConfig, ParseError(cursor_AdapterName, "") >>
    ELSE << cursor_ToCore(cursor_Decode(data.doc), order), NoError >>

----------------------------------------------------------------------------
(* hooks/windsurf/config.go *)

windsurf_AdapterName == "windsurf"

windsurf_NewConfig == [Hooks |-> EmptyMap]

windsurf_eventMapping ==
    (Event.BeforeFileRead :> "pre_read_code") @@ (Event.AfterFileRead :> "post_read_code") @@
    (Event.BeforeFileWrite :> "pre_write_code") @@ (Event.AfterFileWrite :> "post_write_code") @@
    (Event.BeforeCommand :> "pre_run_command") @@ (Event.AfterCommand :> "post_run_command") @@
    (Event.BeforeMCP :> "pre_mcp_tool_use") @@ (Event.AfterMCP :> "post_mcp_tool_use") @@
    (Event.BeforePrompt :> "pre_user_prompt")

windsurf_reverseEventMapping ==
    ("pre_read_code" :> Event.BeforeFileRead) @@ ("post_read_code" :> Event.AfterFileRead) @@
    ("pre_write_code" :> Event.BeforeFileWrite) @@ ("post_write_code" :> Event.AfterFileWrite) @@
    ("pre_run_command" :> Event.BeforeCommand) @@ ("post_run_command" :> Event.AfterCommand) @@
    ("pre_mcp_tool_use" :> Event.BeforeMCP) @@ ("post_mcp_tool_use" :> Event.AfterMCP) @@
    ("pre_user_prompt" :> Event.BeforePrompt)

windsurf_SupportedEvents ==
    << Event.BeforeFileRead, Event.AfterFileRead, Event.BeforeFileWrite, Event.AfterFileWrite,
       Event.BeforeCommand, Event.AfterCommand, Event.BeforeMCP, Event.AfterMCP, Event.BeforePrompt >>

RECURSIVE windsurf_ToCoreLoop(_, _, _)
windsurf_ToCoreLoop(windsurfCfg, order, hooks) ==
    IF order = << >> THEN hooks
    ELSE LET windsurfEvent == Head(order)
             native        == windsurfCfg.Hooks[windsurfEvent]
         IN  IF windsurfEvent \notin DOMAIN windsurf_reverseEventMapping
             THEN windsurf_ToCoreLoop(windsurfCfg, Tail(order), hooks)
             ELSE LET canonicalEvent == windsurf_reverseEventMapping[windsurfEvent]
                      coreHooks == [j \in DOMAIN native |->
                                       [Hook EXCEPT !.Type = HookTypeCommand,
                                                    !.Command = native[j].Command,
                                                    !.ShowOutput = native[j].ShowOutput,
                                                    !.WorkingDir = native[j].WorkingDirectory]]
                  IN  windsurf_ToCoreLoop(windsurfCfg, Tail(order),
                          MapPut(hooks, canonicalEvent,
                                 Append(MapGet(hooks, canonicalEvent),
                                        HookEntry("", coreHooks))))

windsurf_ToCore(windsurfCfg, order) ==
    [NewConfig EXCEPT !.Hooks = windsurf_ToCoreLoop(windsurfCfg, order, EmptyMap)]

RECURSIVE windsurf_FromCoreHooks(_)
windsurf_FromCoreHooks(hs) ==
    IF hs = << >> THEN << >>
    ELSE (IF Head(hs).Command # ""
          THEN << [Command |-> Head(hs).Command, ShowOutput |-> Head(hs).ShowOutput,
                   WorkingDirectory |-> Head(hs).WorkingDir] >>
          ELSE << >>)
         \o windsurf_FromCoreHooks(Tail(hs))

RECURSIVE windsurf_FromCoreLoop(_, _, _)
windsurf_FromCoreLoop(cfg, order, hooks) ==
    IF order = << >> THEN hooks
    ELSE LET event   == Head(order)
             entries == cfg.Hooks[event]
             emitted == Flatten([i \in DOMAIN entries |-> windsurf_FromCoreHooks(entries[i].Hooks)])
         IN  IF event \notin DOMAIN windsurf_eventMapping \/ emitted = << >>
             THEN windsurf_FromCoreLoop(cfg, Tail(order), hooks)
             ELSE windsurf_FromCoreLoop(cfg, Tail(order),
                      MapPut(hooks, windsurf_eventMapping[event],
                             MapGet(hooks, windsurf_eventMapping[event]) \o emitted))

windsurf_FromCore(cfg, order) ==
    [windsurf_NewConfig EXCEPT !.Hooks = windsurf_FromCoreLoop(cfg, order, EmptyMap)]

\* json.MarshalIndent of windsurf.Config: show_output and working_directory are omitempty
windsurf_EncodeHook(h) ==
    ("command" :> h.Command) @@ OmitEmpty("show_output", h.ShowOutput, FALSE) @@
    OmitEmpty("working_directory", h.WorkingDirectory, "")

windsurf_Encode(windsurfCfg) ==
    "hooks" :> [ne \in DOMAIN windsurfCfg.Hooks |->
                   [i \in DOMAIN windsurfCfg.Hooks[ne] |->
                       windsurf_EncodeHook(windsurfCfg.Hooks[ne][i])]]

windsurf_Decode(doc) ==
    [Hooks |-> LET m == Field(doc, "hooks", EmptyMap)
               IN  [ne \in DOMAIN m |->
                      [i \in DOMAIN m[ne] |->
                          [Command |-> Field(m[ne][i], "command", ""),
                           ShowOutput |-> Field(m[ne][i], "show_output", FALSE),
                           WorkingDirectory |-> Field(m[ne][i], "working_directory", "")]]]]

windsurf_Marshal(cfg, order) == << Bytes(windsurf_Encode(windsurf_FromCore(cfg, order))), NoError >>

windsurf_Parse(data, order) ==
    IF ~data.valid
    THEN << NewConfig, ParseError(windsurf_AdapterName, "") >>
    ELSE << windsurf_ToCore(windsurf_Decode(data.doc), order), NoError >>

----------------------------------------------------------------------------
(* The Adapter interface, dispatched on the adapter's name *)

SupportedTools == << "claude", "cursor", "windsurf" >>

Tools == Range(SupportedTools)

AdapterMarshal(tool, cfg, order) ==
    CASE tool = claude_AdapterName   -> claude_Marshal(cfg, order)
      [] tool = cursor_AdapterName   -> cursor_Marshal(cfg, order)
      [] tool = windsurf_AdapterName -> windsurf_Marshal(cfg, order)

AdapterParse(tool, data, order) ==
    CASE tool = claude_AdapterName   -> claude_Parse(data, order)
      [] tool = cursor_AdapterName   -> cursor_Parse(data, order)
      [] tool = windsurf_AdapterName -> windsurf_Parse(data, order)

AdapterSupportedEvents(tool) ==
    CASE tool = claude_AdapterName   -> claude_SupportedEvents
      [] tool = cursor_AdapterName   -> cursor_SupportedEvents
      [] tool = windsurf_AdapterName -> windsurf_SupportedEvents

\* the native event names of a document, which Parse ranges over
NativeEvents(data) == DOMAIN Field(data.doc, "hooks", EmptyMap)

\* what os.ReadFile gives for a file that cannot be read
NoFile == [missing |-> TRUE]

PathError(p) == [kind |-> "PathError", Path |-> p]

SyntaxError == [kind |-> "SyntaxError"]

\* Adapter.ReadFile of the claude, cursor and windsurf adapters:
\* << config, error >>
AdapterReadFile(t, p, file, order) ==
    IF file = NoFile THEN << NilConfig, ParseError(t, p) >>
    ELSE LET r == AdapterParse(t, file, order)
         IN  IF r[2] # NoError
             THEN << NilConfig, IF r[2].kind = "ParseError" THEN [r[2] EXCEPT !.Path = p]
                                ELSE r[2] >>
             ELSE r

\* json.Unmarshal into core.Config, by the struct tags of Config, HookEntry, Hook
core_Unmarshal(doc) ==
    LET decodeHook(obj) ==
            [Type |-> Field(obj, "type", ""), Command |-> Field(obj, "command", ""),
             Prompt |-> Field(obj, "prompt", ""), Timeout |-> Field(obj, "timeout", 0),
             ShowOutput |-> Field(obj, "showOutput", FALSE),
             WorkingDir |-> Field(obj, "workingDir", "")]
        decodeEntry(obj) ==
            [Matcher |-> Field(obj, "matcher", ""),
             Hooks   |-> LET hs == Field(obj, "hooks", << >>)
                         IN  [j \in DOMAIN hs |-> decodeHook(hs[j])]]
        m == Field(doc, "hooks", NilMap)
    IN  [Version |-> Field(doc, "version", 0),
         Hooks   |-> IF m = NilMap THEN NilMap
                     ELSE [e \in DOMAIN m |-> [i \in DOMAIN m[e] |-> decodeEntry(m[e][i])]],
         DisableAllHooks |-> Field(doc, "disableAllHooks", FALSE),
         AllowManagedHooksOnly |-> Field(doc, "allowManagedHooksOnly", FALSE)]

\* core.ReadFile: << config, error >>
ReadFile(p, file) ==
    IF file = NoFile THEN << NilConfig, PathError(p) >>
    ELSE IF ~file.valid THEN << NilConfig, SyntaxError >>
    ELSE << core_Unmarshal(file.doc), NoError >>

----------------------------------------------------------------------------
(* agents/core/adapter.go: the Registry, a map of adapters by name behind   *)
(* a sync.RWMutex.  An adapter is a value with a name; two adapters of one  *)
(* name differ in their Id.                                                *)

NilAdapter == [Name |-> "", Id |-> 0]

NewRegistry == EmptyMap

\* the zero value of sync.RWMutex: no writer, no readers
RWMutex == [writer |-> "", readers |-> {}]

\* mutant: Lock does not wait for anyone
CanLock_NoWait(m) == TRUE

\* Lock returns once there is no writer and no reader
CanLock(m) == m.writer = "" /\ m.readers = {}

\* RLock returns once there is no writer
CanRLock(m) == m.writer = ""

\* mutant: a name that is present keeps its adapter
Register_Store_KeepFirst(m, adapter) ==
    IF adapter.Name \in DOMAIN m THEN m ELSE MapPut(m, adapter.Name, adapter)

\* r.adapters[adapter.Name()] = adapter
Register_Store(m, adapter) == MapPut(m, adapter.Name, adapter)

\* adapter, ok := r.adapters[name]
GetAdapter_Load(m, name) ==
    [adapter |-> IF name \in DOMAIN m THEN m[name] ELSE NilAdapter,
     ok      |-> name \in DOMAIN m]

\* every name a caller uses, in the order of sort.Strings
SortedNames == << "claude", "cursor", "unknown", "windsurf" >>

\* sort.Strings of the names that the range loop appended in some order
SortStrings(names) == SelectSeq(SortedNames, LAMBDA n : n \in Range(names))

----------------------------------------------------------------------------
(* Registry.Convert (skills) and errors                                    *)

NilBytes == [nil |-> TRUE]

\* fmt.Errorf(format, name): the format and what it is filled with
Errorf(format, name, wrapped) == [kind |-> "error", format |-> format, name |-> name,
                                  Err |-> wrapped]

\* mutant: the canonical value is marshalled by the source adapter
Registry_Convert_SourceMarshals(reg, bytes, from, to, parseOrder, marshalOrder) ==
    IF ~GetAdapter_Load(reg, from).ok
    THEN << NilBytes, Errorf("unknown source adapter: %s", from, NoError) >>
    ELSE IF ~GetAdapter_Load(reg, to).ok
    THEN << NilBytes, Errorf("unknown target adapter: %s", to, NoError) >>
    ELSE LET fromAdapter == GetAdapter_Load(reg, from).adapter
             result      == AdapterParse(fromAdapter.Name, bytes, parseOrder)
         IN  IF result[2] # NoError
             THEN << NilBytes, Errorf("parse %s: %w", from, result[2]) >>
             ELSE AdapterMarshal(fromAdapter.Name, result[1], marshalOrder)

\* << bytes, error >>; parseOrder and marshalOrder are the orders in which the
\* two adapters range over their maps
Registry_Convert(reg, bytes, from, to, parseOrder, marshalOrder) ==
    IF ~GetAdapter_Load(reg, from).ok
    THEN << NilBytes, Errorf("unknown source adapter: %s", from, NoError) >>
    ELSE IF ~GetAdapter_Load(reg, to).ok
    THEN << NilBytes, Errorf("unknown target adapter: %s", to, NoError) >>
    ELSE LET fromAdapter == GetAdapter_Load(reg, from).adapter
             toAdapter   == GetAdapter_Load(reg, to).adapter
             result      == AdapterParse(fromAdapter.Name, bytes, parseOrder)
         IN  IF result[2] # NoError
             THEN << NilBytes, Errorf("parse %s: %w", from, result[2]) >>
             ELSE AdapterMarshal(toAdapter.Name, result[1], marshalOrder)

----------------------------------------------------------------------------
(* hooks/core: AdapterRegistry.Convert and ConversionError                 *)

ConversionError(from, to, event, err) ==
    [kind |-> "ConversionError", From |-> from, To |-> to, Event |-> event, Err |-> err]

\* the cause of a failed lookup: which side was not resolved
UnknownAdapter(side, name) == [kind |-> "unknown adapter", side |-> side, name |-> name]

\* mutant: whichever lookup fails, the source is blamed
AdapterRegistry_Convert_BlamesSource(reg, bytes, from, to, parseOrder, marshalOrder) ==
    IF ~GetAdapter_Load(reg, from).ok \/ ~GetAdapter_Load(reg, to).ok
    THEN << NilBytes, ConversionError(from, to, "", UnknownAdapter("source", from)) >>
    ELSE LET result == AdapterParse(GetAdapter_Load(reg, from).adapter.Name, bytes, parseOrder)
         IN  IF result[2] # NoError
             THEN << NilBytes, ConversionError(from, to, "", result[2]) >>
             ELSE AdapterMarshal(GetAdapter_Load(reg, to).adapter.Name, result[1], marshalOrder)

AdapterRegistry_Convert(reg, bytes, from, to, parseOrder, marshalOrder) ==
    IF ~GetAdapter_Load(reg, from).ok
    THEN << NilBytes, ConversionError(from, to, "", UnknownAdapter("source", from)) >>
    ELSE IF ~GetAdapter_Load(reg, to).ok
    THEN << NilBytes, ConversionError(from, to, "", UnknownAdapter("target", to)) >>
    ELSE LET result == AdapterParse(GetAdapter_Load(reg, from).adapter.Name, bytes, parseOrder)
         IN  IF result[2] # NoError
             THEN << NilBytes, ConversionError(from, to, "", result[2]) >>
             ELSE AdapterMarshal(GetAdapter_Load(reg, to).adapter.Name, result[1], marshalOrder)

----------------------------------------------------------------------------
(* The conversion pipeline: a caller builds a canonical Config with         *)
(* AddHookWithMatcher, marshals it with one adapter and parses the bytes   *)
(* back with the same adapter.                                             *)

----------------------------------------------------------------------------
(* bundle: a Bundle and its generation for one tool or for all of them.    *)
(* A path is the sequence of its elements; a skill, command or agent is    *)
(* its name; the context is its name, "" when there is none; the file      *)
(* system is the sequence of the operations done on it.                     *)

bundle_SupportedTools == << "claude", "kiro", "gemini", "cursor", "codex" >>

\* the zero value of ToolConfig
ToolConfig == [PluginDir |-> "", PluginFile |-> "", SkillsDir |-> "", CommandsDir |-> "",
               HooksDir |-> "", HooksFile |-> "", AgentsDir |-> "", MCPDir |-> "",
               MCPFile |-> "", ContextDir |-> "", ContextFile |-> ""]

DefaultToolConfigs ==
    ("claude" :> [ToolConfig EXCEPT !.PluginDir = ".claude-plugin", !.PluginFile = "plugin.json",
                                    !.SkillsDir = "skills", !.CommandsDir = "commands",
                                    !.AgentsDir = "agents", !.ContextDir = ".",
                                    !.ContextFile = "CLAUDE.md"]) @@
    ("kiro" :> [ToolConfig EXCEPT !.AgentsDir = ".kiro/agents", !.MCPDir = ".kiro/settings",
                                  !.MCPFile = "mcp.json"]) @@
    ("gemini" :> [ToolConfig EXCEPT !.PluginDir = ".", !.PluginFile = "gemini-extension.json",
                                    !.CommandsDir = "commands", !.AgentsDir = "agents"]) @@
    ("cursor" :> [ToolConfig EXCEPT !.HooksDir = ".", !.HooksFile = ".cursorrules",
                                    !.MCPDir = ".cursor", !.MCPFile = "mcp.json",
                                    !.ContextDir = ".", !.ContextFile = ".cursorrules"]) @@
    ("codex" :> [ToolConfig EXCEPT !.SkillsDir = "skills", !.CommandsDir = "prompts",
                                   !.AgentsDir = "agents", !.MCPDir = ".codex",
                                   !.MCPFile = "mcp.json", !.ContextDir = ".",
                                   !.ContextFile = "AGENTS.md"]) @@
    ("vscode" :> [ToolConfig EXCEPT !.MCPDir = ".vscode", !.MCPFile = "mcp.json"])

\* the tools whose adapter the package registers by its imports, per domain
RegisteredAdapters ==
    [plugin   |-> {"claude", "gemini"},
     skills   |-> {"claude", "codex"},
     commands |-> {"claude", "codex", "gemini"},
     hooks    |-> {"claude", "cursor", "windsurf"},
     agents   |-> {"claude", "codex", "gemini", "kiro"},
     mcp      |-> {"claude", "codex", "cursor", "kiro", "vscode"},
     context  |-> {"claude"}]

New(name) ==
    [Plugin   |-> [Name |-> name, Skills |-> "", Commands |-> "", Agents |-> "", Hooks |-> << >>],
     Skills   |-> << >>,
     Commands |-> << >>,
     Hooks    |-> NewConfig,
     Agents   |-> << >>,
     Context  |-> "",
     MCP      |-> [Servers |-> EmptyMap]]

\* filepath.Join: empty elements and "." are dropped
Join(dir, elem) == IF elem \in {"", "."} THEN dir ELSE Append(dir, elem)

\* filepath.Dir
Dir(p) == SubSeq(p, 1, Len(p) - 1)

\* one operation on the file system, with the component that reports its failure
MkdirAll(p, kind, item) ==
    [op |-> "mkdir", path |-> p, kind |-> kind, item |-> item, content |-> << >>]

WriteFile(p, kind, item, content) ==
    [op |-> "write", path |-> p, kind |-> kind, item |-> item, content |-> << content >>]

GenerateError(tool, kind, item, err) ==
    [kind |-> "GenerateError", Tool |-> tool, Component |-> [kind |-> kind, item |-> item],
     Err |-> err]

\* b.Hooks != nil && b.Hooks.HasHooks()
Bundle_HasHooks(b) == b.Hooks # NilConfig /\ HasHooks(b.Hooks)

\* the hooks object of the consolidated manifest: five of Claude's events
convertHooksToClaudeFormat(hooks, order) ==
    LET pluginHook(h) == [Type |-> h.Type, Command |-> h.Command, Prompt |-> h.Prompt]
        pluginEntry(entry) ==
            [Matcher |-> entry.Matcher,
             Hooks   |-> [j \in DOMAIN entry.Hooks |-> pluginHook(entry.Hooks[j])]]
        pluginEntries(entries) == [i \in DOMAIN entries |-> pluginEntry(entries[i])]
        convert(claudeHooks) ==
            [PreToolUse   |-> pluginEntries(MapGet(claudeHooks, PreToolUse)),
             PostToolUse  |-> pluginEntries(MapGet(claudeHooks, PostToolUse)),
             Notification |-> pluginEntries(MapGet(claudeHooks, "Notification")),
             Stop         |-> pluginEntries(MapGet(claudeHooks, "Stop")),
             SubagentStop |-> pluginEntries(MapGet(claudeHooks, "SubagentStop"))]
    IN  convert(claude_FromCore(hooks, order).Hooks)

\* the manifest before generateClaudePlugin fills it
pluginsclaude_FromCanonical(plugin) ==
    [Name |-> plugin.Name, Skills |-> << >>, Commands |-> << >>, Agents |-> << >>,
     MCPServers |-> EmptyMap, Hooks |-> [nil |-> TRUE]]

generateClaudePlugin(b, config, pluginPath, order) ==
    LET base == pluginsclaude_FromCanonical(b.Plugin)
        claudePlugin ==
            [base EXCEPT
                !.Skills     = IF Len(b.Skills) > 0 /\ config.SkillsDir # ""
                               THEN << "./", config.SkillsDir, "/" >> ELSE @,
                !.Commands   = IF Len(b.Commands) > 0 /\ config.CommandsDir # ""
                               THEN << "./", config.CommandsDir, "/" >> ELSE @,
                !.Agents     = IF Len(b.Agents) > 0 /\ config.AgentsDir # ""
                               THEN << "./", config.AgentsDir, "/" >> ELSE @,
                !.MCPServers = IF DOMAIN b.MCP.Servers # {} THEN b.MCP.Servers ELSE @,
                !.Hooks      = IF Bundle_HasHooks(b)
                               THEN convertHooksToClaudeFormat(b.Hooks, order) ELSE @]
    IN  << MkdirAll(Dir(pluginPath), "plugin", ""),
           WriteFile(pluginPath, "plugin", "", claudePlugin) >>

\* the Bundle as generatePlugin leaves it: the paths it stores in b.Plugin
generatePlugin_Bundle(b, tool, config) ==
    IF config.PluginDir = "" \/ config.PluginFile = "" THEN b
    ELSE [b EXCEPT
            !.Plugin.Skills   = IF Len(b.Skills) > 0 /\ config.SkillsDir # ""
                                THEN config.SkillsDir ELSE @,
            !.Plugin.Commands = IF Len(b.Commands) > 0 /\ config.CommandsDir # ""
                                THEN config.CommandsDir ELSE @,
            !.Plugin.Agents   = IF Len(b.Agents) > 0 /\ config.AgentsDir # ""
                                THEN config.AgentsDir ELSE @,
            !.Plugin.Hooks    = IF /\ tool # "claude"
                                   /\ tool \in RegisteredAdapters.plugin
                                   /\ Bundle_HasHooks(b)
                                   /\ config.HooksDir # ""
                                THEN Join(Join(<< >>, config.HooksDir), config.HooksFile)
                                ELSE @]

\* the operations of generatePlugin
generatePlugin(b, tool, outputDir, config, order) ==
    IF config.PluginDir = "" \/ config.PluginFile = "" THEN << >>
    ELSE LET write(after, pluginPath) ==
                 IF tool = "claude" THEN generateClaudePlugin(after, config, pluginPath, order)
                 ELSE IF tool \notin RegisteredAdapters.plugin THEN << >>
                 ELSE << WriteFile(pluginPath, "plugin", "", after.Plugin) >>
         IN  write(generatePlugin_Bundle(b, tool, config),
                   Join(Join(outputDir, config.PluginDir), config.PluginFile))

\* generateSkills, generateCommands and generateAgents: the directory, then one
\* file for each item in order
generateItems(items, tool, outputDir, dir, kind, each) ==
    IF Len(items) = 0 \/ dir = "" THEN << >>
    ELSE IF tool \notin RegisteredAdapters[kind] THEN << >>
    ELSE << MkdirAll(Join(outputDir, dir), kind, "") >> \o
         [i \in DOMAIN items |->
             WriteFile(Join(Join(outputDir, dir), items[i]), each, items[i], items[i])]

generateHooks(b, tool, outputDir, config) ==
    IF ~Bundle_HasHooks(b) \/ config.HooksDir = "" THEN << >>
    ELSE IF tool \notin RegisteredAdapters.hooks THEN << >>
    ELSE LET hooksPath == Join(Join(outputDir, config.HooksDir), config.HooksFile)
         IN  << MkdirAll(Dir(hooksPath), "hooks", ""),
                WriteFile(hooksPath, "hooks", "", b.Hooks) >>

generateMCP(b, tool, outputDir, config) ==
    IF DOMAIN b.MCP.Servers = {} \/ config.MCPDir = "" THEN << >>
    ELSE IF tool \notin RegisteredAdapters.mcp THEN << >>
    ELSE LET mcpPath == Join(Join(outputDir, config.MCPDir), config.MCPFile)
         IN  << MkdirAll(Dir(mcpPath), "mcp", ""),
                WriteFile(mcpPath, "mcp", "", b.MCP) >>

generateContext(b, tool, outputDir, config) ==
    IF b.Context = "" \/ config.ContextFile = "" THEN << >>
    ELSE IF tool \notin RegisteredAdapters.context THEN << >>
    ELSE LET contextPath == Join(Join(outputDir, config.ContextDir), config.ContextFile)
         IN  << MkdirAll(Dir(contextPath), "context", ""),
                WriteFile(contextPath, "context", "", b.Context) >>

\* mutant: the commands are generated before the skills
Generate_Plan_CommandsBeforeSkills(b, tool, outputDir, order) ==
    LET steps(config, after) ==
            << MkdirAll(outputDir, "", "") >> \o
            generatePlugin(b, tool, outputDir, config, order) \o
            generateItems(after.Commands, tool, outputDir, config.CommandsDir, "commands", "command") \o
            generateItems(after.Skills, tool, outputDir, config.SkillsDir, "skills", "skill") \o
            generateHooks(after, tool, outputDir, config) \o
            generateItems(after.Agents, tool, outputDir, config.AgentsDir, "agents", "agent") \o
            generateMCP(after, tool, outputDir, config) \o
            generateContext(after, tool, outputDir, config)
    IN  steps(DefaultToolConfigs[tool],
              generatePlugin_Bundle(b, tool, DefaultToolConfigs[tool]))

\* what a call of Generate does when nothing fails: the operations in order
Generate_Plan(b, tool, outputDir, order) ==
    LET steps(config, after) ==
            << MkdirAll(outputDir, "", "") >> \o
            generatePlugin(b, tool, outputDir, config, order) \o
            generateItems(after.Skills, tool, outputDir, config.SkillsDir, "skills", "skill") \o
            generateItems(after.Commands, tool, outputDir, config.CommandsDir, "commands", "command") \o
            generateHooks(after, tool, outputDir, config) \o
            generateItems(after.Agents, tool, outputDir, config.AgentsDir, "agents", "agent") \o
            generateMCP(after, tool, outputDir, config) \o
            generateContext(after, tool, outputDir, config)
    IN  steps(DefaultToolConfigs[tool],
              generatePlugin_Bundle(b, tool, DefaultToolConfigs[tool]))

\* Generate when the operation numbered fail fails (none when fail is 0 or
\* beyond the last): the Bundle afterwards, the operations done, the error
Generate(b, tool, outputDir, fail, order) ==
    IF tool \notin DOMAIN DefaultToolConfigs
    THEN [bundle |-> b, done |-> << >>,
          err |-> GenerateError(tool, "", "", [kind |-> "unsupported tool"])]
    ELSE LET failed(step) ==
                 GenerateError(tool, step.kind, step.item,
                               [kind |-> "PathError", op |-> step.op, path |-> step.path])
             run(plan, after) ==
                 IF fail \in DOMAIN plan
                 THEN [bundle |-> IF fail = 1 THEN b ELSE after,
                       done   |-> SubSeq(plan, 1, fail - 1),
                       err    |-> failed(plan[fail])]
                 ELSE [bundle |-> after, done |-> plan, err |-> [kind |-> "nil"]]
         IN  run(Generate_Plan(b, tool, outputDir, order),
                 generatePlugin_Bundle(b, tool, DefaultToolConfigs[tool]))

\* the loop of GenerateAll over the tools that are left
RECURSIVE GenerateAll_Loop(_, _, _, _, _)
GenerateAll_Loop(b, tools, outputDir, fail, order) ==
    IF tools = << >> THEN [bundle |-> b, done |-> << >>, err |-> [kind |-> "nil"]]
    ELSE LET after(first, rest) == [rest EXCEPT !.done = first.done \o rest.done]
             loop(first) ==
                 IF first.err.kind # "nil" THEN first
                 ELSE after(first,
                            GenerateAll_Loop(first.bundle, Tail(tools), outputDir,
                                             IF fail = 0 THEN 0 ELSE fail - Len(first.done),
                                             order))
         IN  loop(Generate(b, Head(tools), Join(outputDir, Head(tools)), fail, order))

\* mutant: the tools are taken from the end of the list
GenerateAll_LastFirst(b, outputDir, fail, order) ==
    GenerateAll_Loop(b, << "codex", "cursor", "gemini", "kiro", "claude" >>, outputDir, fail, order)

GenerateAll(b, outputDir, fail, order) ==
    GenerateAll_Loop(b, bundle_SupportedTools, outputDir, fail, order)

VARIABLES
    cfg, tool, data, marshalErr, parsed, parseErr,   \* the conversion pipeline
    pc,                                              \* where the caller stands
    nativeEvent, nativeMatcher, mapped,              \* one call of claudeToCanonicalEvent
    adapters, mu, goroutines, registered,            \* a Registry and its callers
    call,                                            \* one call of Convert
    validated,                                       \* one call of Config.Validate
    path,                                            \* the file given to ReadFile
    bundle, disk, generated,                         \* a Bundle, the file system, one call of Generate
    shared                                           \* the events whose entries two Configs keep in one array

pipelineVars == << cfg, tool, data, marshalErr, parsed, parseErr >>

mappingVars == << nativeEvent, nativeMatcher, mapped >>

registryVars == << adapters, mu, goroutines, registered >>

\* what the conversion pipeline and the Registry leave alone
outerVars == << validated, path, bundle, disk, generated, shared >>

\* what the steps of a Registry method leave alone
callerVars == << pipelineVars, pc, mappingVars, call, outerVars >>

vars == << pipelineVars, pc, mappingVars, registryVars, call, outerVars >>

MaxHooks == 2

\* one event every tool has, one with no default Claude matcher, one Claude and
\* Cursor have, one only Claude has and one only Cursor has
TestEvents == {Event.BeforeCommand, Event.BeforeMCP, Event.OnStop, Event.OnSessionStart, Event.AfterResponse}

TestMatchers == {"", "Bash", "mcp__fs"}

TestHooks ==
    { WithTimeout(NewCommandHook("a"), 30),
      WithShowOutput([Hook EXCEPT !.Command = "b"], TRUE),
      NewPromptHook("p"),
      [Hook EXCEPT !.Prompt = "q"] }

\* the variables of the pipeline before anything has been built
PipelineIdle ==
    /\ cfg = NewConfig
    /\ tool = ""
    /\ data = Bytes(EmptyMap)
    /\ marshalErr = NoError
    /\ parsed = NewConfig
    /\ parseErr = NoError

MappingIdle == nativeEvent = "" /\ nativeMatcher = "" /\ mapped = ""

Goroutines == {"g1", "g2", "g3"}

\* what a call of GetAdapter or AdapterNames returned; seen is how many
\* registrations the map held when it was read, raced whether the map was read
\* or written while another goroutine was writing it
NoResult == [adapter |-> NilAdapter, ok |-> FALSE, names |-> << >>, seen |-> 0,
             raced |-> FALSE]

IdleGoroutine == [pc |-> "idle", op |-> "", adapter |-> NilAdapter, name |-> "",
                  ret |-> NoResult]

\* known: the names that were registered when Convert was called
NoCall == [kind |-> "", bytes |-> NilBytes, from |-> "", to |-> "", known |-> {},
           out |-> NilBytes, err |-> NoError]

\* a new Registry that nobody has called yet
RegistryIdle ==
    /\ adapters = NewRegistry
    /\ mu = RWMutex
    /\ goroutines = [g \in Goroutines |-> IdleGoroutine]
    /\ registered = << >>
    /\ call = NoCall

\* Validate has not been called
NoValidation == [config |-> NilConfig, err |-> NoError]

\* Generate has not been called
NoGenerate == [op |-> "", tool |-> "", outputDir |-> "", fail |-> 0, err |-> NoError]

OuterIdle ==
    /\ validated = NoValidation
    /\ path = ""
    /\ bundle = New("b")
    /\ disk = << >>
    /\ generated = NoGenerate
    /\ shared = {}

Init ==
    /\ PipelineIdle
    /\ pc = "build"
    /\ MappingIdle
    /\ RegistryIdle
    /\ OuterIdle

DoAddHookWithMatcher ==
    /\ pc = "build"
    /\ HookCount(cfg) < MaxHooks
    /\ \E event \in TestEvents, matcher \in TestMatchers, hook \in TestHooks :
          cfg' = AddHookWithMatcher(cfg, event, matcher, hook)
    /\ UNCHANGED << tool, data, marshalErr, parsed, parseErr, pc, mappingVars, registryVars, call, outerVars >>

DoMarshal ==
    /\ pc = "build"
    /\ \E t \in Tools, order \in Orders(DOMAIN cfg.Hooks) :
          /\ tool' = t
          /\ data' = AdapterMarshal(t, cfg, order)[1]
          /\ marshalErr' = AdapterMarshal(t, cfg, order)[2]
    /\ pc' = "marshalled"
    /\ UNCHANGED << cfg, parsed, parseErr, mappingVars, registryVars, call, outerVars >>

\* the bytes are those that Marshal gave or those of a native file
DoParse ==
    /\ pc \in {"marshalled", "native"}
    /\ \E order \in Orders(NativeEvents(data)) :
          /\ parsed' = AdapterParse(tool, data, order)[1]
          /\ parseErr' = AdapterParse(tool, data, order)[2]
    /\ pc' = "parsed"
    /\ UNCHANGED << cfg, tool, data, marshalErr, mappingVars, registryVars, call, outerVars >>

Next == DoAddHookWithMatcher \/ DoMarshal \/ DoParse

Spec == Init /\ [][Next]_vars

----------------------------------------------------------------------------
(* Vocabulary of the claims about the pipeline *)

\* the type a hook counts as: its tag, else what its payload says
HookKind(h) ==
    IF h.Type # "" THEN h.Type
    ELSE IF h.Command # "" THEN HookTypeCommand
    ELSE IF h.Prompt # "" THEN HookTypePrompt
    ELSE ""

HookTypesOf(t) == IF t = claude_AdapterName THEN {HookTypeCommand, HookTypePrompt}
                  ELSE {HookTypeCommand}

Supports(t, event) == event \in Range(AdapterSupportedEvents(t))

AllHooksOf(c) == UNION {Range(GetAllHooksForEvent(c, e)) : e \in DOMAIN c.Hooks}

\* the Config holds only events and hook types that the tool supports
WithinTool(t, c) ==
    /\ \A e \in DOMAIN c.Hooks : Supports(t, e)
    /\ \A h \in AllHooksOf(c) : HookKind(h) \in HookTypesOf(t)

\* the hooks of the entries of one event that carry one matcher, in order
HooksUnder(c, event, matcher) ==
    LET entries == MapGet(c.Hooks, event)
    IN  Flatten([i \in DOMAIN entries |->
                    IF entries[i].Matcher = matcher THEN entries[i].Hooks ELSE << >>])

EntriesOf(c) == UNION {Range(c.Hooks[e]) : e \in DOMAIN c.Hooks}

\* << event, entry index, hook index >> of every hook of a Config
HookPositions(c) ==
    UNION { UNION { {<< e, i, j >> : j \in DOMAIN c.Hooks[e][i].Hooks} :
                    i \in DOMAIN c.Hooks[e] } : e \in DOMAIN c.Hooks }

HookAt(c, pos) == c.Hooks[pos[1]][pos[2]].Hooks[pos[3]]

\* what a round trip is expected to keep of a hook
Payload(h) == << HookKind(h), h.Command, h.Prompt >>

Payloads(hs) == [i \in DOMAIN hs |-> Payload(hs[i])]

\* the native event name under which a tool files a canonical event
NativeName(t, event) ==
    CASE t = claude_AdapterName   -> claude_eventMapping[event]
      [] t = cursor_AdapterName   -> cursor_eventMapping[event]
      [] t = windsurf_AdapterName -> windsurf_eventMapping[event]

\* the number of hook records a document holds under one native event: an item
\* with a "hooks" list is a Claude entry, any other item is one hook
DocHookCount(d, ne) ==
    LET items == MapGet(Field(d.doc, "hooks", EmptyMap), ne)
    IN  Cardinality(UNION { IF "hooks" \in DOMAIN items[i]
                            THEN {<< i, j >> : j \in DOMAIN items[i]["hooks"]}
                            ELSE {<< i, 0 >>} : i \in DOMAIN items })

----------------------------------------------------------------------------
(* C1 *)

\* the matcher under which a tool stores an entry: Claude fills an empty matcher
\* with the default of the event, Cursor and Windsurf have no matchers
StoredMatcher(t, event, matcher) ==
    IF t = claude_AdapterName
    THEN IF matcher = "" THEN Field(canonicalEventToMatcher, event, "") ELSE matcher
    ELSE ""

HooksStoredUnder(t, c, event, matcher) ==
    LET entries == MapGet(c.Hooks, event)
    IN  Flatten([i \in DOMAIN entries |->
                    IF StoredMatcher(t, event, entries[i].Matcher) = matcher
                    THEN entries[i].Hooks ELSE << >>])

\* every entry's stored matcher is one that Claude resolves back to the entry's event
ClaudeKeepsEvent(c) ==
    \A e \in DOMAIN c.Hooks : \A en \in Range(c.Hooks[e]) :
        claudeToCanonicalEvent(claude_eventMapping[e],
                               StoredMatcher(claude_AdapterName, e, en.Matcher)) = e

PairsOf(t, c, p) ==
    (DOMAIN c.Hooks \cup DOMAIN p.Hooks) \X
    ({en.Matcher : en \in EntriesOf(p)} \cup {en.Matcher : en \in EntriesOf(c)} \cup
     {StoredMatcher(t, e, m) : e \in DOMAIN c.Hooks, m \in {en.Matcher : en \in EntriesOf(c)}})

\* C1 as stated: a round trip through one adapter keeps the total hook count and,
\* for every (event, matcher) pair, the ordered list of hooks.
C1_RoundTripKeepsEntries ==
    (pc = "parsed" /\ WithinTool(tool, cfg)) =>
        /\ HookCount(parsed) = HookCount(cfg)
        /\ \A em \in PairsOf(tool, cfg, parsed) :
              HooksUnder(parsed, em[1], em[2]) = HooksUnder(cfg, em[1], em[2])

\* C1 amended: a round trip through one adapter keeps the total hook count; and,
\* unless Claude resolves an entry's matcher to another event, it keeps for every
\* event and every matcher as the tool stores it the ordered list of hooks,
\* compared by type after inference and by command and prompt.
C1_RoundTripKeepsHooks ==
    (pc = "parsed" /\ WithinTool(tool, cfg)) =>
        /\ HookCount(parsed) = HookCount(cfg)
        /\ (tool = claude_AdapterName => ClaudeKeepsEvent(cfg)) =>
              \A em \in PairsOf(tool, cfg, parsed) :
                  Payloads(HooksUnder(parsed, em[1], em[2]))
                      = Payloads(HooksStoredUnder(tool, cfg, em[1], em[2]))

C1_Witness ==
    /\ pc = "parsed"
    /\ tool = claude_AdapterName
    /\ WithinTool(tool, cfg)
    /\ ClaudeKeepsEvent(cfg)
    /\ HookCount(cfg) >= 2
    /\ HooksUnder(cfg, Event.BeforeCommand, "") # << >>
    /\ HooksUnder(parsed, Event.BeforeCommand, "Bash") # << >>

----------------------------------------------------------------------------
(* C4 *)

\* the hooks of the Config that the tool files under one native event
FiledUnder(t, c, ne) ==
    {pos \in HookPositions(c) :
        /\ Supports(t, pos[1])
        /\ NativeName(t, pos[1]) = ne
        /\ HookKind(HookAt(c, pos)) \in HookTypesOf(t)}

NativeNamesOf(t, c) == {NativeName(t, e) : e \in {x \in DOMAIN c.Hooks : Supports(t, x)}}

\* C4: Marshal returns no error, and under every native event the bytes hold exactly
\* the hooks of the supported events filed there; the entries of an event the tool
\* does not support leave nothing behind.
C4_UnsupportedEventsDropped ==
    pc = "marshalled" =>
        /\ marshalErr = NoError
        /\ \A ne \in NativeEvents(data) \cup NativeNamesOf(tool, cfg) :
              DocHookCount(data, ne) = Cardinality(FiledUnder(tool, cfg, ne))

C4_Witness ==
    /\ pc = "marshalled"
    /\ \E e \in DOMAIN cfg.Hooks : ~Supports(tool, e)
    /\ \E ne \in NativeEvents(data) : DocHookCount(data, ne) > 0

----------------------------------------------------------------------------
(* C5 *)

CommandOnlyTools == {cursor_AdapterName, windsurf_AdapterName}

DocHookTotal(d) ==
    Cardinality(UNION {{<< ne, k >> : k \in 1..DocHookCount(d, ne)} : ne \in NativeEvents(d)})

----------------------------------------------------------------------------
(* C10 *)

ParsedWithCommand(command) == {h \in AllHooksOf(parsed) : h.Command = command}

ParsedWithPrompt(prompt) == {h \in AllHooksOf(parsed) : h.Prompt = prompt}

\* C10: after Marshal then Parse, a hook of a supported event that had a Command and
\* no Type is a Command-type hook, and through Claude a hook that had a Prompt and
\* no Type is a Prompt-type hook.
C10_InferredTypeRoundTrips ==
    pc = "parsed" =>
        \A pos \in HookPositions(cfg) :
            LET h == HookAt(cfg, pos)
            IN  (Supports(tool, pos[1]) /\ h.Type = "") =>
                  /\ h.Command # "" =>
                        /\ ParsedWithCommand(h.Command) # {}
                        /\ \A g \in ParsedWithCommand(h.Command) : g.Type = HookTypeCommand
                  /\ (h.Command = "" /\ h.Prompt # "" /\ tool = claude_AdapterName) =>
                        /\ ParsedWithPrompt(h.Prompt) # {}
                        /\ \A g \in ParsedWithPrompt(h.Prompt) : g.Type = HookTypePrompt

C10_Witness ==
    /\ pc = "parsed"
    /\ tool = claude_AdapterName
    /\ \E pos \in HookPositions(cfg) :
          HookAt(cfg, pos).Type = "" /\ HookAt(cfg, pos).Command # "" /\ Supports(tool, pos[1])
    /\ \E pos \in HookPositions(cfg) :
          HookAt(cfg, pos).Type = "" /\ HookAt(cfg, pos).Prompt # "" /\ Supports(tool, pos[1])
    /\ \E g \in AllHooksOf(parsed) : g.Type = HookTypePrompt /\ g.Prompt = "q"

----------------------------------------------------------------------------
(* One call of claudeToCanonicalEvent on a native event and a matcher *)

ClaudeNativeEvents == {PreToolUse, PostToolUse} \cup DOMAIN claude_reverseEventMapping

TestNativeEvents == ClaudeNativeEvents \cup {"UnknownEvent"}

TestNativeMatchers ==
    {"", "Bash", "Read", "Write", "Edit", "Write|Edit", "mcp__fs", "Bash|Write", "bash"}

InitEventMap ==
    /\ PipelineIdle
    /\ RegistryIdle
    /\ OuterIdle
    /\ pc = "call"
    /\ nativeEvent \in TestNativeEvents
    /\ nativeMatcher \in TestNativeMatchers
    /\ mapped = ""

DoClaudeToCanonicalEvent ==
    /\ pc = "call"
    /\ mapped' = claudeToCanonicalEvent(nativeEvent, nativeMatcher)
    /\ pc' = "return"
    /\ UNCHANGED << pipelineVars, nativeEvent, nativeMatcher, registryVars, call, outerVars >>

NextEventMap == DoClaudeToCanonicalEvent

SpecEventMap == InitEventMap /\ [][NextEventMap]_vars

----------------------------------------------------------------------------
(* C2 *)

\* C2: PreToolUse maps with "Bash" to Event.BeforeCommand, with "Read" to Event.BeforeFileRead,
\* with "Write", "Edit" or "Write|Edit" to Event.BeforeFileWrite and with any other
\* matcher to Event.BeforeMCP; PostToolUse maps the same matchers to the After events
\* and any other matcher to Event.AfterMCP; a native event of the direct table maps to
\* its one canonical event whatever the matcher is.
C2_NativeToCanonical ==
    pc = "return" =>
        /\ nativeEvent = "PreToolUse" =>
              mapped = CASE nativeMatcher = "Bash" -> Event.BeforeCommand
                         [] nativeMatcher = "Read" -> Event.BeforeFileRead
                         [] nativeMatcher \in {"Write", "Edit", "Write|Edit"} -> Event.BeforeFileWrite
                         [] OTHER -> Event.BeforeMCP
        /\ nativeEvent = "PostToolUse" =>
              mapped = CASE nativeMatcher = "Bash" -> Event.AfterCommand
                         [] nativeMatcher = "Read" -> Event.AfterFileRead
                         [] nativeMatcher \in {"Write", "Edit", "Write|Edit"} -> Event.AfterFileWrite
                         [] OTHER -> Event.AfterMCP
        /\ nativeEvent \in DOMAIN claude_reverseEventMapping =>
              /\ mapped = claude_reverseEventMapping[nativeEvent]
              /\ mapped = CASE nativeEvent = "UserPromptSubmit"  -> Event.BeforePrompt
                            [] nativeEvent = "Stop"              -> Event.OnStop
                            [] nativeEvent = "SessionStart"      -> Event.OnSessionStart
                            [] nativeEvent = "SessionEnd"        -> Event.OnSessionEnd
                            [] nativeEvent = "PermissionRequest" -> Event.OnPermission
                            [] nativeEvent = "Notification"      -> Event.OnNotification
                            [] nativeEvent = "PreCompact"        -> Event.BeforeCompact
                            [] nativeEvent = "SubagentStop"      -> Event.OnSubagentStop

C2_Witness ==
    /\ pc = "return"
    /\ nativeEvent = "PostToolUse"
    /\ nativeMatcher = "mcp__fs"
    /\ mapped = Event.AfterMCP

----------------------------------------------------------------------------
(* Parsing a native payload: somebody writes hooks into a file of one tool, *)
(* under event names that the tool has and under one that it has not, and   *)
(* the tool's adapter parses the file.                                      *)

TestNativeNames(t) ==
    CASE t = claude_AdapterName   -> {"PreToolUse", "Stop", "UnknownEvent"}
      [] t = cursor_AdapterName   -> {"beforeShellExecution", "stop", "unknownEvent"}
      [] t = windsurf_AdapterName -> {"pre_run_command", "pre_user_prompt", "unknown_event"}

\* the native event names that the adapter of a tool resolves
RecognizedNativeEvents(t) ==
    CASE t = claude_AdapterName   -> ClaudeNativeEvents
      [] t = cursor_AdapterName   -> DOMAIN cursor_reverseEventMapping
      [] t = windsurf_AdapterName -> DOMAIN windsurf_reverseEventMapping

\* the document with one more command hook under a native event; in a Claude
\* file the hook joins the last entry of the event when that has the matcher
NativeAppend(t, doc, ne, nm, command) ==
    LET m     == Field(doc, "hooks", EmptyMap)
        items == MapGet(m, ne)
        hook  == IF t = claude_AdapterName
                 THEN ("type" :> "command") @@ ("command" :> command)
                 ELSE "command" :> command
        last  == items[Len(items)]
        added == IF t # claude_AdapterName THEN Append(items, hook)
                 ELSE IF items # << >> /\ Field(last, "matcher", "") = nm
                 THEN [items EXCEPT ![Len(items)] =
                          ("hooks" :> Append(last["hooks"], hook)) @@ last]
                 ELSE Append(items, OmitEmpty("matcher", nm, "") @@ ("hooks" :> << hook >>))
    IN  ("hooks" :> MapPut(m, ne, added)) @@ doc

InitNative ==
    /\ cfg = NewConfig
    /\ tool \in Tools
    /\ data = Bytes(EmptyMap)
    /\ marshalErr = NoError
    /\ parsed = NewConfig
    /\ parseErr = NoError
    /\ pc = "native"
    /\ MappingIdle
    /\ RegistryIdle
    /\ OuterIdle

DoNativeHook ==
    /\ pc = "native"
    /\ DocHookTotal(data) < MaxHooks
    /\ \E ne \in TestNativeNames(tool), nm \in {"", "Bash"}, command \in {"x", "y"} :
          data' = Bytes(NativeAppend(tool, data.doc, ne, nm, command))
    /\ UNCHANGED << cfg, tool, marshalErr, parsed, parseErr, pc, mappingVars,
                    registryVars, call, outerVars >>

NextNative == DoNativeHook \/ DoParse

SpecNative == InitNative /\ [][NextNative]_vars

----------------------------------------------------------------------------
(* C3 *)

RecognizedHookTotal(t, d) ==
    Cardinality(UNION {{<< ne, k >> : k \in 1..DocHookCount(d, ne)} :
                          ne \in NativeEvents(d) \cap RecognizedNativeEvents(t)})

\* C3: parsing a native payload gives a Config whose HookCount is the number of
\* hooks that the payload holds under native event names the adapter recognizes;
\* hooks under other names are not counted.
C3_ParseCountsRecognized ==
    (pc = "parsed" /\ parseErr = NoError) => HookCount(parsed) = RecognizedHookTotal(tool, data)

\* the same for Cursor and Windsurf alone
C3_ParseCountsRecognized_CursorWindsurf ==
    (pc = "parsed" /\ parseErr = NoError /\ tool # claude_AdapterName) =>
        HookCount(parsed) = RecognizedHookTotal(tool, data)

----------------------------------------------------------------------------
(* Convert: the adapters of the tools register themselves in their init     *)
(* functions, each once, and then callers convert payloads between names   *)
(* that are registered or not.                                              *)

\* two events that Claude files under one native event, and a prompt hook
TestConfigs ==
    { AddHookWithMatcher(AddHook(NewConfig, Event.BeforeCommand, NewCommandHook("a")),
                         Event.BeforeMCP, "mcp__fs", NewCommandHook("b")),
      AddHook(NewConfig, Event.OnStop, NewPromptHook("p")) }

TestPayloads ==
    {MalformedBytes, Bytes(EmptyMap)} \cup
    UNION { UNION { {AdapterMarshal(t, c, order)[1] : order \in Orders(DOMAIN c.Hooks)} :
                    c \in TestConfigs } : t \in Tools }

TestAdapterNames == Tools \cup {"unknown"}

\* the orders in which the target adapter can range over what the source parsed
MarshalOrders(bytes, from, parseOrder) ==
    IF from \in Tools
    THEN Orders(DOMAIN AdapterParse(from, bytes, parseOrder)[1].Hooks)
    ELSE {<< >>}

InitConvert ==
    /\ PipelineIdle
    /\ pc = "init"
    /\ MappingIdle
    /\ RegistryIdle
    /\ OuterIdle

\* func init() { core.Register(&Adapter{}) }
DoRegister ==
    /\ pc = "init"
    /\ \E t \in Tools :
          /\ t \notin DOMAIN adapters
          /\ adapters' = Register_Store(adapters, [Name |-> t, Id |-> 1])
          /\ registered' = Append(registered, [Name |-> t, Id |-> 1])
    /\ UNCHANGED << pipelineVars, pc, mappingVars, mu, goroutines, call, outerVars >>

\* the init functions are done when main begins
DoMain ==
    /\ pc = "init"
    /\ pc' = "main"
    /\ UNCHANGED << pipelineVars, mappingVars, registryVars, call, outerVars >>

DoConvert ==
    /\ pc = "main"
    /\ \E bytes \in TestPayloads, from \in TestAdapterNames, to \in TestAdapterNames :
       \E parseOrder \in Orders(NativeEvents(bytes)) :
       \E marshalOrder \in MarshalOrders(bytes, from, parseOrder) :
          LET result == Registry_Convert(adapters, bytes, from, to, parseOrder, marshalOrder)
          IN  call' = [kind |-> "Registry", bytes |-> bytes, from |-> from, to |-> to,
                       known |-> DOMAIN adapters, out |-> result[1], err |-> result[2]]
    /\ UNCHANGED << pipelineVars, pc, mappingVars, registryVars, outerVars >>

DoAdapterRegistryConvert ==
    /\ pc = "main"
    /\ \E bytes \in TestPayloads, from \in TestAdapterNames, to \in TestAdapterNames :
       \E parseOrder \in Orders(NativeEvents(bytes)) :
       \E marshalOrder \in MarshalOrders(bytes, from, parseOrder) :
          LET result == AdapterRegistry_Convert(adapters, bytes, from, to,
                                                parseOrder, marshalOrder)
          IN  call' = [kind |-> "AdapterRegistry", bytes |-> bytes, from |-> from,
                       to |-> to, known |-> DOMAIN adapters,
                       out |-> result[1], err |-> result[2]]
    /\ UNCHANGED << pipelineVars, pc, mappingVars, registryVars, outerVars >>

NextConvert == DoRegister \/ DoMain \/ DoConvert \/ DoAdapterRegistryConvert

SpecConvert == InitConvert /\ [][NextConvert]_vars

----------------------------------------------------------------------------
(* C6 *)

\* C6: Convert of the hooks registry with a source name that is not registered
\* returns no bytes and a ConversionError with the given From and To whose cause
\* names the source; with a registered source and a target that is not
\* registered, one whose cause names the target.
C6_UnknownAdapterReported ==
    call.kind = "AdapterRegistry" =>
        /\ call.from \notin call.known =>
              /\ call.out = NilBytes
              /\ call.err = ConversionError(call.from, call.to, "",
                                            UnknownAdapter("source", call.from))
        /\ (call.from \in call.known /\ call.to \notin call.known) =>
              /\ call.out = NilBytes
              /\ call.err = ConversionError(call.from, call.to, "",
                                            UnknownAdapter("target", call.to))

C6_Witness ==
    /\ call.kind = "AdapterRegistry"
    /\ call.from = "claude"
    /\ call.from \in call.known
    /\ call.to = "unknown"
    /\ call.err.kind = "ConversionError"
    /\ call.err.Err.side = "target"

----------------------------------------------------------------------------
(* C7 *)

\* what Marshal of the target gives for what Parse of the source gave, for the
\* orders in which the two may range over their maps; a failed Parse gives no
\* bytes and an error that wraps the one of Parse
ParseThenMarshal(bytes, from, to) ==
    UNION { LET result == AdapterParse(from, bytes, parseOrder)
            IN  IF result[2] # NoError
                THEN {<< NilBytes, Errorf("parse %s: %w", from, result[2]) >>}
                ELSE {AdapterMarshal(to, result[1], marshalOrder) :
                         marshalOrder \in Orders(DOMAIN result[1].Hooks)}
            : parseOrder \in Orders(NativeEvents(bytes)) }

\* C7: between two registered adapters Convert returns what Marshal of the target
\* returns for what Parse of the source returned, whatever was converted before;
\* and a call of Convert leaves the registry as it was.
C7_ConvertIsParseThenMarshal ==
    /\ [] ( (call.kind = "Registry" /\ {call.from, call.to} \subseteq call.known) =>
               << call.out, call.err >> \in ParseThenMarshal(call.bytes, call.from, call.to) )
    /\ [][call' # call => UNCHANGED registryVars]_vars

C7_Witness ==
    /\ call.kind = "Registry"
    /\ call.from = "claude"
    /\ call.to = "cursor"
    /\ {"claude", "cursor"} \subseteq call.known
    /\ call.err = NoError
    /\ call.out # NilBytes
    /\ DocHookTotal(call.out) = 2

----------------------------------------------------------------------------
(* A Registry used by several goroutines.  Every method is taken apart into *)
(* its steps: the call, taking the lock, touching the map, and the deferred *)
(* unlock with the return.  A map write takes two steps, so that a          *)
(* goroutine that gets at the map meanwhile finds it half written.          *)

MaxRegisters == 3

TestAdapters == [Name : {"claude", "cursor"}, Id : {1, 2}]

\* the goroutines other than g that are in the middle of writing the map
Writing(g) == {h \in Goroutines \ {g} : goroutines[h].pc = "store"}

\* what a goroutine may find in the map: the map, or with a write going on
\* (a data race) the map with or without what is being written
MapsSeenBy(g) ==
    {adapters} \cup {Register_Store(adapters, goroutines[h].adapter) : h \in Writing(g)}

Registering == {g \in Goroutines : goroutines[g].op = "Register"}

InitRegistry ==
    /\ PipelineIdle
    /\ pc = "registry"
    /\ MappingIdle
    /\ RegistryIdle
    /\ OuterIdle

CallRegister(g) ==
    /\ goroutines[g].pc = "idle"
    /\ Len(registered) + Cardinality(Registering) < MaxRegisters
    /\ \E adapter \in TestAdapters :
          goroutines' = [goroutines EXCEPT ![g] =
              [IdleGoroutine EXCEPT !.pc = "lock", !.op = "Register", !.adapter = adapter]]
    /\ UNCHANGED << adapters, mu, registered, callerVars >>

CallGetAdapter(g) ==
    /\ goroutines[g].pc = "idle"
    /\ \E name \in {"claude", "cursor"} :
          goroutines' = [goroutines EXCEPT ![g] =
              [IdleGoroutine EXCEPT !.pc = "lock", !.op = "GetAdapter", !.name = name]]
    /\ UNCHANGED << adapters, mu, registered, callerVars >>

CallAdapterNames(g) ==
    /\ goroutines[g].pc = "idle"
    /\ goroutines' = [goroutines EXCEPT ![g] =
          [IdleGoroutine EXCEPT !.pc = "lock", !.op = "AdapterNames"]]
    /\ UNCHANGED << adapters, mu, registered, callerVars >>

\* r.mu.Lock()
Lock(g) ==
    /\ goroutines[g].pc = "lock"
    /\ goroutines[g].op = "Register"
    /\ CanLock(mu)
    /\ mu' = [mu EXCEPT !.writer = g]
    /\ goroutines' = [goroutines EXCEPT ![g].pc = "access"]
    /\ UNCHANGED << adapters, registered, callerVars >>

\* r.mu.RLock()
RLock(g) ==
    /\ goroutines[g].pc = "lock"
    /\ goroutines[g].op \in {"GetAdapter", "AdapterNames"}
    /\ CanRLock(mu)
    /\ mu' = [mu EXCEPT !.readers = @ \cup {g}]
    /\ goroutines' = [goroutines EXCEPT ![g].pc = "access"]
    /\ UNCHANGED << adapters, registered, callerVars >>

\* r.adapters[adapter.Name()] = adapter, begun
StoreBegin(g) ==
    /\ goroutines[g].pc = "access"
    /\ goroutines[g].op = "Register"
    /\ goroutines' = [goroutines EXCEPT ![g].pc = "store"]
    /\ UNCHANGED << adapters, mu, registered, callerVars >>

\* r.adapters[adapter.Name()] = adapter, done; next to another write (a data
\* race) the write may as well be lost
StoreEnd(g) ==
    /\ goroutines[g].pc = "store"
    /\ \E stored \in (IF Writing(g) = {} THEN {TRUE} ELSE BOOLEAN) :
          /\ adapters' = IF stored THEN Register_Store(adapters, goroutines[g].adapter)
                         ELSE adapters
          /\ registered' = IF stored THEN Append(registered, goroutines[g].adapter)
                           ELSE registered
    /\ goroutines' = [goroutines EXCEPT ![g].pc = "unlock",
                                        ![g].ret.seen = Len(registered'),
                                        ![g].ret.raced = (Writing(g) # {})]
    /\ UNCHANGED << mu, callerVars >>

\* adapter, ok := r.adapters[name]
Load(g) ==
    /\ goroutines[g].pc = "access"
    /\ goroutines[g].op = "GetAdapter"
    /\ \E m \in MapsSeenBy(g) :
          goroutines' = [goroutines EXCEPT
              ![g].pc = "unlock",
              ![g].ret = [NoResult EXCEPT
                             !.adapter = GetAdapter_Load(m, goroutines[g].name).adapter,
                             !.ok = GetAdapter_Load(m, goroutines[g].name).ok,
                             !.seen = Len(registered),
                             !.raced = (Writing(g) # {})]]
    /\ UNCHANGED << adapters, mu, registered, callerVars >>

\* for name := range r.adapters { names = append(names, name) }; sort.Strings(names)
RangeNames(g) ==
    /\ goroutines[g].pc = "access"
    /\ goroutines[g].op = "AdapterNames"
    /\ \E m \in MapsSeenBy(g) : \E order \in Orders(DOMAIN m) :
          goroutines' = [goroutines EXCEPT
              ![g].pc = "unlock",
              ![g].ret = [NoResult EXCEPT !.names = SortStrings(order),
                                          !.seen = Len(registered),
                                          !.raced = (Writing(g) # {})]]
    /\ UNCHANGED << adapters, mu, registered, callerVars >>

\* defer r.mu.Unlock(), and the return
Unlock(g) ==
    /\ goroutines[g].pc = "unlock"
    /\ goroutines[g].op = "Register"
    /\ mu' = [mu EXCEPT !.writer = ""]
    /\ goroutines' = [goroutines EXCEPT ![g] = IdleGoroutine]
    /\ UNCHANGED << adapters, registered, callerVars >>

\* defer r.mu.RUnlock(), and the return
RUnlock(g) ==
    /\ goroutines[g].pc = "unlock"
    /\ goroutines[g].op \in {"GetAdapter", "AdapterNames"}
    /\ mu' = [mu EXCEPT !.readers = @ \ {g}]
    /\ goroutines' = [goroutines EXCEPT ![g] = IdleGoroutine]
    /\ UNCHANGED << adapters, registered, callerVars >>

NextRegistry ==
    \/ \E g \in Goroutines : CallRegister(g)
    \/ \E g \in Goroutines : CallGetAdapter(g)
    \/ \E g \in Goroutines : CallAdapterNames(g)
    \/ \E g \in Goroutines : Lock(g)
    \/ \E g \in Goroutines : RLock(g)
    \/ \E g \in Goroutines : StoreBegin(g)
    \/ \E g \in Goroutines : StoreEnd(g)
    \/ \E g \in Goroutines : Load(g)
    \/ \E g \in Goroutines : RangeNames(g)
    \/ \E g \in Goroutines : Unlock(g)
    \/ \E g \in Goroutines : RUnlock(g)

SpecRegistry == InitRegistry /\ [][NextRegistry]_vars

----------------------------------------------------------------------------
(* C8 *)

\* the goroutines that are between taking the lock and giving it back
Inside == {g \in Goroutines : goroutines[g].pc \in {"access", "store", "unlock"}}

\* the map after the first k registrations
RECURSIVE MapAfter(_)
MapAfter(k) == IF k = 0 THEN NewRegistry ELSE Register_Store(MapAfter(k - 1), registered[k])

\* C8: a goroutine touches the map only between taking and releasing the lock,
\* a writer alone and readers without a writer; nothing is read or written while
\* another goroutine writes; the adapter of a finished Register is in the map
\* unless a later Register replaced it; and what GetAdapter or AdapterNames
\* returns is what the map held after some number of whole registrations.
C8_RegistrySafeUnderConcurrency ==
    \A g \in Inside :
        LET it == goroutines[g]
        IN  /\ it.op = "Register" => (mu.writer = g /\ mu.readers = {} /\ Inside = {g})
            /\ it.op # "Register" => (g \in mu.readers /\ mu.writer = "")
            /\ ~it.ret.raced
            /\ (it.op = "Register" /\ it.pc = "unlock") =>
                  /\ it.ret.seen \in DOMAIN registered
                  /\ registered[it.ret.seen] = it.adapter
                  /\ it.adapter.Name \in DOMAIN adapters
                  /\ adapters = MapAfter(Len(registered))
            /\ (it.op = "GetAdapter" /\ it.pc = "unlock") =>
                  \E k \in 0..Len(registered) :
                      << it.ret.adapter, it.ret.ok >> =
                          << GetAdapter_Load(MapAfter(k), it.name).adapter,
                             GetAdapter_Load(MapAfter(k), it.name).ok >>
            /\ (it.op = "AdapterNames" /\ it.pc = "unlock") =>
                  \E k \in 0..Len(registered) : Range(it.ret.names) = DOMAIN MapAfter(k)

\* a writer waits while two readers are inside, one of which has found an adapter
C8_Witness ==
    \E g \in Goroutines, h \in Goroutines, w \in Goroutines :
        /\ g # h
        /\ goroutines[g].op = "GetAdapter" /\ goroutines[g].pc = "unlock"
        /\ goroutines[g].ret.ok
        /\ goroutines[h].op = "AdapterNames" /\ goroutines[h].pc = "unlock"
        /\ Len(goroutines[h].ret.names) = 2
        /\ goroutines[w].op = "Register" /\ goroutines[w].pc = "lock"
        /\ Len(registered) >= 2

----------------------------------------------------------------------------
(* C9 *)

\* the registrations under a name among the first k
RegisteredUnder(name, k) == {i \in 1..k : registered[i].Name = name}

Latest(indices) == CHOOSE i \in indices : \A j \in indices : j <= i

\* C9: GetAdapter of a name finds the adapter that was registered last under the
\* name when one was, and finds nothing otherwise; a Register under a name that
\* is present replaces the adapter, and the map holds under every name the
\* adapter registered last under it.
C9_LastRegisteredWins ==
    /\ \A g \in Goroutines :
          LET it    == goroutines[g]
              prior == RegisteredUnder(it.name, it.ret.seen)
          IN  (it.op = "GetAdapter" /\ it.pc = "unlock") =>
                  /\ it.ret.ok = (prior # {})
                  /\ it.ret.adapter = IF prior # {} THEN registered[Latest(prior)]
                                      ELSE NilAdapter
    /\ (\A g \in Goroutines : goroutines[g].pc # "store") =>
          /\ DOMAIN adapters = {registered[i].Name : i \in DOMAIN registered}
          /\ \A name \in DOMAIN adapters :
                adapters[name] = registered[Latest(RegisteredUnder(name, Len(registered)))]

\* a lookup finds the second adapter registered under a name, not the first
C9_Witness ==
    \E g \in Goroutines :
        /\ goroutines[g].op = "GetAdapter" /\ goroutines[g].pc = "unlock"
        /\ goroutines[g].ret.ok
        /\ goroutines[g].ret.adapter.Id = 2
        /\ \E i \in DOMAIN registered :
              registered[i] = [Name |-> goroutines[g].name, Id |-> 1]

----------------------------------------------------------------------------
(* C11 *)

\* the tag that Claude's native format has for a hook type
NativeTag(kind) == IF kind = HookTypeCommand THEN "command"
                   ELSE IF kind = HookTypePrompt THEN "prompt" ELSE ""

\* C11: wherever the type of a hook is decided, a hook with an empty Type counts
\* as Command when it has a Command and else as Prompt when it has a Prompt: in
\* IsCommand and IsPrompt, in the tag that Claude's FromCore writes, and in what
\* Claude's ToCore makes of a native hook that has no tag.
C11_InferenceEverywhere ==
    \A h \in AllHooksOf(cfg) \cup AllHooksOf(parsed) :
        /\ IsCommand(h) = (HookKind(h) = HookTypeCommand)
        /\ IsPrompt(h) = (HookKind(h) = HookTypePrompt)
        /\ claude_FromCoreHook(h).Type = NativeTag(HookKind(h))
        /\ LET core == claude_ToCoreHook([claude_FromCoreHook(h) EXCEPT !.Type = ""])
           IN  /\ IsCommand(core) = (HookKind(h) = HookTypeCommand)
               /\ IsPrompt(core) = (HookKind(h) = HookTypePrompt)

\* the same without IsPrompt, which looks at the tag alone
C11_InferenceButIsPrompt ==
    \A h \in AllHooksOf(cfg) \cup AllHooksOf(parsed) :
        /\ IsCommand(h) = (HookKind(h) = HookTypeCommand)
        /\ claude_FromCoreHook(h).Type = NativeTag(HookKind(h))
        /\ IsCommand(claude_ToCoreHook([claude_FromCoreHook(h) EXCEPT !.Type = ""]))
              = (HookKind(h) = HookTypeCommand)

----------------------------------------------------------------------------
(* A Config built by AddHook, AddHookWithMatcher and Merge *)

\* the configs that are merged in: none, an empty one, ones that set a flag and
\* ones with one or two entries
MergeConfigs ==
    { NilConfig, NewConfig, [NewConfig EXCEPT !.DisableAllHooks = TRUE],
      [NewConfig EXCEPT !.AllowManagedHooksOnly = TRUE],
      AddHookWithMatcher(NewConfig, Event.BeforeCommand, "Bash", NewCommandHook("m")),
      AddHook(NewConfig, Event.OnStop, NewPromptHook("n")),
      AddHookWithMatcher(AddHook(NewConfig, Event.BeforeCommand, NewCommandHook("m")),
                         Event.BeforeMCP, "mcp__fs", NewCommandHook("o")) }

OtherEvents(other) == IF other = NilConfig THEN {} ELSE Keys(other.Hooks)

OtherCount(other) == IF other = NilConfig THEN 0 ELSE HookCount(other)

DoAddHook ==
    /\ pc = "build"
    /\ HookCount(cfg) < MaxHooks
    /\ \E event \in TestEvents, hook \in TestHooks : cfg' = AddHook(cfg, event, hook)
    /\ UNCHANGED << tool, data, marshalErr, parsed, parseErr, pc, mappingVars, registryVars, call, outerVars >>

\* c.Merge(other), also with c itself as other; parsed keeps the other of the
\* last call
DoMerge ==
    /\ pc = "build"
    /\ \E other \in MergeConfigs \cup {cfg} :
          /\ HookCount(cfg) + OtherCount(other) <= MaxHooks
          /\ \E order \in Orders(OtherEvents(other)) : cfg' = Merge(cfg, other, order)
          /\ parsed' = other
    /\ UNCHANGED << tool, data, marshalErr, parseErr, pc, mappingVars, registryVars, call, outerVars >>

NextMerge == DoAddHook \/ DoAddHookWithMatcher \/ DoMerge

SpecMerge == Init /\ [][NextMerge]_vars

\* no two entries of one event have the same matcher
DistinctMatchers(c) ==
    \A e \in DOMAIN c.Hooks : \A i, j \in DOMAIN c.Hooks[e] :
        i # j => c.Hooks[e][i].Matcher # c.Hooks[e][j].Matcher

\* a step keeps every entry where it was and only appends: entries at the end
\* of an event's list, hooks at the end of an entry's list
KeepsInsertionOrder(before, after) ==
    \A e \in DOMAIN before.Hooks :
        /\ e \in DOMAIN after.Hooks
        /\ Len(before.Hooks[e]) <= Len(after.Hooks[e])
        /\ \A i \in DOMAIN before.Hooks[e] :
              /\ after.Hooks[e][i].Matcher = before.Hooks[e][i].Matcher
              /\ Len(before.Hooks[e][i].Hooks) <= Len(after.Hooks[e][i].Hooks)
              /\ SubSeq(after.Hooks[e][i].Hooks, 1, Len(before.Hooks[e][i].Hooks))
                    = before.Hooks[e][i].Hooks

\* C12: after any sequence of AddHook, AddHookWithMatcher and Merge the entries
\* of every event are in insertion order with their hooks in the order they
\* were added, and no two entries of one event have the same matcher.
C12_OrderedAndMergedByMatcher ==
    /\ [](DistinctMatchers(cfg))
    /\ [][KeepsInsertionOrder(cfg, cfg')]_vars

\* the part of C12 that the code keeps: insertion order, of entries and of hooks
C12_InsertionOrderKept == [][KeepsInsertionOrder(cfg, cfg')]_vars

\* the part of C12 that AddHook and AddHookWithMatcher keep on their own
C12_DistinctWithoutMerge == [][DoMerge \/ (DistinctMatchers(cfg) => DistinctMatchers(cfg'))]_vars

\* the same without matchers: AddHook and Merge only
NextAddAndMerge == DoAddHook \/ DoMerge

SpecAddAndMerge == Init /\ [][NextAddAndMerge]_vars

\* what Merge is expected to leave in c
Merged(before, other, after) ==
    IF other = NilConfig THEN after = before
    ELSE /\ DOMAIN after.Hooks = DOMAIN before.Hooks \cup DOMAIN other.Hooks
         /\ \A e \in DOMAIN after.Hooks :
               after.Hooks[e] = MapGet(before.Hooks, e) \o MapGet(other.Hooks, e)
         /\ HookCount(after) = HookCount(before) + HookCount(other)
         /\ after.DisableAllHooks = (before.DisableAllHooks \/ other.DisableAllHooks)
         /\ after.AllowManagedHooksOnly =
               (before.AllowManagedHooksOnly \/ other.AllowManagedHooksOnly)

\* C23: c.Merge(other) with a non-nil other leaves, for every event, c's
\* previous entries followed by other's entries in order, so that HookCount(c)
\* grows by HookCount(other); each of the two flags is set afterwards exactly
\* when it was set in c or in other; c.Merge(nil) leaves c as it was.
C23_MergeAppendsAndOrsFlags == [][DoMerge => Merged(cfg, parsed', cfg')]_vars

\* a Config with an entry under BeforeCommand was merged into one that had an
\* entry under the same event, and a flag that only c had set is still set
C23_Witness ==
    /\ parsed = AddHookWithMatcher(NewConfig, Event.BeforeCommand, "Bash", NewCommandHook("m"))
    /\ cfg.DisableAllHooks
    /\ Event.BeforeCommand \in DOMAIN cfg.Hooks
    /\ cfg.Hooks[Event.BeforeCommand] =
          << HookEntry("", << WithTimeout(NewCommandHook("a"), 30) >>),
             HookEntry("Bash", << NewCommandHook("m") >>) >>

----------------------------------------------------------------------------
(* Config.Validate on a Config that was built, and on one that was parsed *)

\* hooks as a caller can write them: well formed, empty, and with both a
\* command and a prompt
AnyHooks ==
    { NewCommandHook("a"), [Hook EXCEPT !.Prompt = "q"], Hook,
      [Hook EXCEPT !.Command = "c", !.Prompt = "r"] }

DoAddAnyHook ==
    /\ pc = "build"
    /\ HookCount(cfg) < MaxHooks
    /\ \E event \in {Event.BeforeCommand, Event.OnStop}, matcher \in {"", "Bash"},
          hook \in AnyHooks :
          cfg' = AddHookWithMatcher(cfg, event, matcher, hook)
    /\ UNCHANGED << tool, data, marshalErr, parsed, parseErr, pc, mappingVars, registryVars, call, outerVars >>

\* Validate is called on the Config under construction or on the one Parse gave
DoValidate ==
    /\ \/ pc = "build" /\ validated.config # cfg
          /\ \E order \in Orders(DOMAIN cfg.Hooks) :
                validated' = [config |-> cfg, err |-> Validate(cfg, order)]
       \/ pc = "parsed" /\ parseErr = NoError /\ validated.config # parsed
          /\ \E order \in Orders(DOMAIN parsed.Hooks) :
                validated' = [config |-> parsed, err |-> Validate(parsed, order)]
    /\ UNCHANGED << pipelineVars, pc, mappingVars, registryVars, call, path, bundle, disk, generated, shared >>

NextValidate == DoAddAnyHook \/ DoValidate \/ DoMarshal \/ DoParse

SpecValidate == Init /\ [][NextValidate]_vars

\* exactly one of Command and Prompt is set
ExactlyOne(h) == (h.Command # "") # (h.Prompt # "")

\* the hook that a HookValidationError points at; indices count from 0
Located(c, err) ==
    /\ err.Event \in DOMAIN c.Hooks
    /\ err.EntryIndex + 1 \in DOMAIN c.Hooks[err.Event]
    /\ err.HookIndex + 1 \in DOMAIN c.Hooks[err.Event][err.EntryIndex + 1].Hooks
    /\ ~ExactlyOne(c.Hooks[err.Event][err.EntryIndex + 1].Hooks[err.HookIndex + 1])

\* C13: Validate returns nil exactly when every hook of the Config has exactly
\* one of Command and Prompt; otherwise it returns a HookValidationError whose
\* Event, EntryIndex and HookIndex locate a hook that has none or both; Parse
\* returns no error for a well-formed payload whatever its hooks hold.
C13_ValidateLocatesViolation ==
    /\ validated # NoValidation =>
          /\ validated.err = NoError <=> \A h \in AllHooksOf(validated.config) : ExactlyOne(h)
          /\ validated.err # NoError =>
                /\ validated.err.kind = "HookValidationError"
                /\ Located(validated.config, validated.err)
    /\ (pc = "parsed" /\ data.valid) => parseErr = NoError

\* Parse accepted a payload and Validate then rejected what it gave, pointing
\* at a hook that is not the first of its event
C13_Witness ==
    /\ pc = "parsed"
    /\ parseErr = NoError
    /\ validated.config = parsed
    /\ validated.err.kind = "HookValidationError"
    /\ validated.err.EntryIndex + validated.err.HookIndex > 0

\* Validate accepted a Config that holds hooks
C13_WitnessValid ==
    /\ validated # NoValidation
    /\ validated.err = NoError
    /\ HookCount(validated.config) = MaxHooks

----------------------------------------------------------------------------
(* A Bundle is filled and then generated, for one tool or for all *)

MaxItems == 2

\* the names that skills, commands and agents are given, in this order
ItemNames == << "one", "two", "three" >>

\* hooks configs given to SetHooks: one event with a default Claude matcher,
\* two events outside PreToolUse and PostToolUse, and what Parse gives for a
\* Claude file whose only entry has no hooks
BundleHooks ==
    { AddHook(NewConfig, Event.BeforeCommand, NewCommandHook("a")),
      AddHook(AddHook(NewConfig, Event.OnSessionStart, NewCommandHook("s")),
              Event.OnStop, WithTimeout(NewPromptHook("p"), 30)),
      claude_Parse(Bytes("hooks" :> ("Stop" :> << "hooks" :> << >> >>)), << "Stop" >>)[1] }

\* the tools Generate is asked for: the supported ones, one that has a
\* ToolConfig only, and one that has none
GenerateTools == Range(bundle_SupportedTools) \cup {"vscode", "windsurf"}

OutputDir == << "out" >>

InitBundle ==
    /\ PipelineIdle
    /\ pc = "bundle"
    /\ MappingIdle
    /\ RegistryIdle
    /\ OuterIdle

DoAddSkill ==
    /\ pc = "bundle"
    /\ Len(bundle.Skills) < MaxItems
    /\ bundle' = [bundle EXCEPT !.Skills = Append(@, ItemNames[Len(@) + 1])]
    /\ UNCHANGED << pipelineVars, pc, mappingVars, registryVars, call, validated, path, disk, generated, shared >>

DoAddCommand ==
    /\ pc = "bundle"
    /\ Len(bundle.Commands) < MaxItems
    /\ bundle' = [bundle EXCEPT !.Commands = Append(@, ItemNames[Len(@) + 1])]
    /\ UNCHANGED << pipelineVars, pc, mappingVars, registryVars, call, validated, path, disk, generated, shared >>

DoAddAgent ==
    /\ pc = "bundle"
    /\ Len(bundle.Agents) < MaxItems
    /\ bundle' = [bundle EXCEPT !.Agents = Append(@, ItemNames[Len(@) + 1])]
    /\ UNCHANGED << pipelineVars, pc, mappingVars, registryVars, call, validated, path, disk, generated, shared >>

DoSetHooks ==
    /\ pc = "bundle"
    /\ bundle.Hooks = NewConfig
    /\ \E hooks \in BundleHooks : bundle' = [bundle EXCEPT !.Hooks = hooks]
    /\ UNCHANGED << pipelineVars, pc, mappingVars, registryVars, call, validated, path, disk, generated, shared >>

DoSetContext ==
    /\ pc = "bundle"
    /\ bundle.Context = ""
    /\ bundle' = [bundle EXCEPT !.Context = "ctx"]
    /\ UNCHANGED << pipelineVars, pc, mappingVars, registryVars, call, validated, path, disk, generated, shared >>

DoAddMCPServer ==
    /\ pc = "bundle"
    /\ DOMAIN bundle.MCP.Servers = {}
    /\ bundle' = [bundle EXCEPT !.MCP.Servers = MapPut(@, "srv", [Command |-> "./srv"])]
    /\ UNCHANGED << pipelineVars, pc, mappingVars, registryVars, call, validated, path, disk, generated, shared >>

DoGenerate ==
    /\ pc = "bundle"
    /\ \E t \in GenerateTools, order \in Orders(DOMAIN bundle.Hooks.Hooks) :
          \E fail \in 0 .. Len(Generate(bundle, t, OutputDir, 0, order).done) :
             LET returns(r) ==
                     /\ bundle' = r.bundle
                     /\ disk' = disk \o r.done
                     /\ generated' = [op |-> "Generate", tool |-> t, outputDir |-> OutputDir,
                                      fail |-> fail, err |-> r.err]
             IN  returns(Generate(bundle, t, OutputDir, fail, order))
    /\ pc' = "generated"
    /\ UNCHANGED << pipelineVars, mappingVars, registryVars, call, validated, path, shared >>

DoGenerateAll ==
    /\ pc = "bundle"
    /\ \E order \in Orders(DOMAIN bundle.Hooks.Hooks) :
          \E fail \in 0 .. Len(GenerateAll(bundle, OutputDir, 0, order).done) :
             LET returns(r) ==
                     /\ bundle' = r.bundle
                     /\ disk' = disk \o r.done
                     /\ generated' = [op |-> "GenerateAll", tool |-> "", outputDir |-> OutputDir,
                                      fail |-> fail, err |-> r.err]
             IN  returns(GenerateAll(bundle, OutputDir, fail, order))
    /\ pc' = "generated"
    /\ UNCHANGED << pipelineVars, mappingVars, registryVars, call, validated, path, shared >>

NextBundle ==
    \/ DoAddSkill \/ DoAddCommand \/ DoAddAgent \/ DoSetHooks \/ DoSetContext
    \/ DoAddMCPServer \/ DoGenerate \/ DoGenerateAll

SpecBundle == InitBundle /\ [][NextBundle]_vars

\* C14: Generate and GenerateAll leave every field of the Bundle as it was,
\* whether they succeed or fail.
C14_GenerateLeavesBundle == [][(DoGenerate \/ DoGenerateAll) => bundle' = bundle]_vars

\* the fields of the Bundle other than the plugin metadata are left as they were
C14_GenerateLeavesCollections ==
    [][(DoGenerate \/ DoGenerateAll) =>
          /\ bundle'.Skills = bundle.Skills /\ bundle'.Commands = bundle.Commands
          /\ bundle'.Hooks = bundle.Hooks /\ bundle'.Agents = bundle.Agents
          /\ bundle'.Context = bundle.Context /\ bundle'.MCP = bundle.MCP
          /\ bundle'.Plugin.Name = bundle.Plugin.Name]_vars

\* the place of an artifact kind in the order of Generate; 0 is the output
\* directory itself
KindRank(kind) ==
    CASE kind = "" -> 0
      [] kind = "plugin" -> 1
      [] kind \in {"skills", "skill"} -> 2
      [] kind \in {"commands", "command"} -> 3
      [] kind = "hooks" -> 4
      [] kind \in {"agents", "agent"} -> 5
      [] kind = "mcp" -> 6
      [] kind = "context" -> 7

\* the collection of the Bundle that an item of this kind comes from
ItemsOf(b, kind) ==
    CASE kind = "skill" -> b.Skills
      [] kind = "command" -> b.Commands
      [] kind = "agent" -> b.Agents
      [] OTHER -> << >>

\* where the item stands in its collection
ItemIndex(items, item) == CHOOSE i \in DOMAIN items : items[i] = item

\* the operations are in the order of the kinds, the items of a kind in the
\* order of their collection
InKindOrder(b, ops) ==
    \A i, j \in DOMAIN ops : i < j =>
        /\ KindRank(ops[i].kind) <= KindRank(ops[j].kind)
        /\ (ops[i].item # "" /\ ops[j].item # "" /\ ops[i].kind = ops[j].kind) =>
              ItemIndex(ItemsOf(b, ops[i].kind), ops[i].item)
                  < ItemIndex(ItemsOf(b, ops[j].kind), ops[j].item)

\* nothing was done for a kind after the component, nor for the item that
\* failed or a later item of its collection
StoppedAt(b, ops, component) ==
    \A i \in DOMAIN ops :
        /\ KindRank(ops[i].kind) <= KindRank(component.kind)
        /\ (component.item # "" /\ ops[i].kind = component.kind) =>
              ItemIndex(ItemsOf(b, component.kind), ops[i].item)
                  < ItemIndex(ItemsOf(b, component.kind), component.item)

ToolIndex(t) == CHOOSE i \in DOMAIN bundle_SupportedTools : bundle_SupportedTools[i] = t

\* the tool whose subdirectory of the output directory the operation is in
ToolOf(o) == o.path[Len(OutputDir) + 1]

\* what was done in the subdirectory of the tool
OpsFor(t) ==
    LET In(o) == ToolOf(o) = t
    IN  SelectSeq(disk, In)

\* all that Generate does for the tool when nothing fails
FullOutput(t) ==
    {Generate(bundle, t, Join(OutputDir, t), 0, order).done :
        order \in Orders(DOMAIN bundle.Hooks.Hooks)}

IsPrefix(short, long) == Len(short) <= Len(long) /\ SubSeq(long, 1, Len(short)) = short

\* C16: GenerateAll calls Generate for the supported tools in list order, each
\* into outputDir/<tool>; when Generate fails for a tool it returns that error,
\* no later tool is generated, and what was written for the earlier tools and
\* for the failing one stays.
C16_GenerateAllStopsAtFirstTool ==
    generated.op = "GenerateAll" =>
        /\ \A i \in DOMAIN disk :
              /\ Len(disk[i].path) > Len(OutputDir)
              /\ SubSeq(disk[i].path, 1, Len(OutputDir)) = OutputDir
              /\ ToolOf(disk[i]) \in Range(bundle_SupportedTools)
        /\ \A i, j \in DOMAIN disk :
              i < j => ToolIndex(ToolOf(disk[i])) <= ToolIndex(ToolOf(disk[j]))
        /\ generated.err = NoError =>
              \A t \in Range(bundle_SupportedTools) : OpsFor(t) \in FullOutput(t)
        /\ generated.err # NoError =>
              /\ generated.err.kind = "GenerateError"
              /\ generated.err.Tool \in Range(bundle_SupportedTools)
              /\ \A t \in Range(bundle_SupportedTools) :
                    /\ ToolIndex(t) < ToolIndex(generated.err.Tool) => OpsFor(t) \in FullOutput(t)
                    /\ ToolIndex(t) > ToolIndex(generated.err.Tool) => OpsFor(t) = << >>
                    /\ t = generated.err.Tool =>
                          \E full \in FullOutput(t) :
                              IsPrefix(OpsFor(t), full) /\ OpsFor(t) # full

\* GenerateAll failed while writing for cursor: the output for claude, kiro and
\* gemini is there, part of cursor's, and nothing for codex, which has a skill
\* to write
C16_Witness ==
    /\ generated.op = "GenerateAll"
    /\ generated.err # NoError
    /\ generated.err.Tool = "cursor"
    /\ Len(OpsFor("cursor")) > 1
    /\ Len(OpsFor("claude")) > 3
    /\ Len(bundle.Skills) > 0
    /\ OpsFor("codex") = << >>

\* the manifests written: the content of every write of the plugin component
Manifests == {disk[i].content[1] : i \in {k \in DOMAIN disk : disk[k].op = "write" /\ disk[k].kind = "plugin"}}

\* the entries the manifest holds under a native event
ManifestEntries(manifest, ne) ==
    IF manifest.Hooks = [nil |-> TRUE] THEN << >>
    ELSE IF ne \in DOMAIN manifest.Hooks THEN manifest.Hooks[ne]
    ELSE << >>

\* a native entry as the manifest holds it: the matcher, and type, command and
\* prompt of every hook
Embedded(entries) ==
    [i \in DOMAIN entries |->
        [Matcher |-> entries[i].Matcher,
         Hooks   |-> [j \in DOMAIN entries[i].Hooks |->
                         [Type    |-> entries[i].Hooks[j].Type,
                          Command |-> entries[i].Hooks[j].Command,
                          Prompt  |-> entries[i].Hooks[j].Prompt]]]]

\* the manifest holds, for each of these native events, what FromCore gives
HoldsFromCore(manifest, events) ==
    \E order \in Orders(DOMAIN bundle.Hooks.Hooks) :
        LET native == claude_FromCore(bundle.Hooks, order).Hooks
        IN  \A ne \in DOMAIN native \cap events :
                ManifestEntries(manifest, ne) = Embedded(native[ne])

GeneratedForClaude ==
    generated.op = "Generate" /\ generated.tool = "claude" /\ generated.err = NoError

\* C17: for claude Generate writes no hooks file and no MCP file, and the one
\* plugin manifest holds the MCP server map and, for every native event of
\* FromCore(bundle.Hooks), that event's entries with their matcher and hooks.
C17_ManifestEmbedsHooksAndMCP ==
    GeneratedForClaude =>
        /\ \A i \in DOMAIN disk : disk[i].kind \notin {"hooks", "mcp"}
        /\ Cardinality(Manifests) = 1
        /\ \A manifest \in Manifests :
              /\ manifest.MCPServers = bundle.MCP.Servers
              /\ HoldsFromCore(manifest, ClaudeNativeEvents)

\* what the code does keep of C17: no separate file, the MCP server map, and
\* the entries of the five events that convertHooksToClaudeFormat knows
C17_ManifestEmbedsFiveEvents ==
    GeneratedForClaude =>
        /\ \A i \in DOMAIN disk : disk[i].kind \notin {"hooks", "mcp"}
        /\ Cardinality(Manifests) = 1
        /\ \A manifest \in Manifests :
              /\ manifest.MCPServers = bundle.MCP.Servers
              /\ HoldsFromCore(manifest, {PreToolUse, PostToolUse, "Notification", "Stop",
                                          "SubagentStop"})

\* the tool that an operation on disk was done for
OpTool(o) == IF generated.op = "Generate" THEN generated.tool ELSE ToolOf(o)

\* the Bundle has something of the operation's kind and the tool has a path
\* for it; hooksPresent says whether the hooks Config counts as non-empty
KindWanted(o, hooksPresent) ==
    LET config == DefaultToolConfigs[OpTool(o)]
    IN  CASE o.kind = "" -> TRUE
          [] o.kind = "plugin" -> config.PluginDir # "" /\ config.PluginFile # ""
          [] o.kind \in {"skills", "skill"} -> Len(bundle.Skills) > 0 /\ config.SkillsDir # ""
          [] o.kind \in {"commands", "command"} ->
                Len(bundle.Commands) > 0 /\ config.CommandsDir # ""
          [] o.kind = "hooks" -> hooksPresent /\ config.HooksDir # ""
          [] o.kind \in {"agents", "agent"} -> Len(bundle.Agents) > 0 /\ config.AgentsDir # ""
          [] o.kind = "mcp" -> DOMAIN bundle.MCP.Servers # {} /\ config.MCPDir # ""
          [] o.kind = "context" -> bundle.Context # "" /\ config.ContextFile # ""

\* C18: Generate writes nothing for a kind whose collection in the Bundle is
\* empty or whose path in the tool's ToolConfig is empty; a Bundle whose hooks
\* Config has HookCount() = 0 and whose MCP Config has no servers gets no hooks
\* file and no MCP file for any tool.
C18_NothingForEmptyKind ==
    \A i \in DOMAIN disk : KindWanted(disk[i], HookCount(bundle.Hooks) > 0)

\* what the code does keep of C18: the hooks Config counts as empty when its
\* map has no event, whatever the events hold
C18_NothingForKindWithoutEvents ==
    \A i \in DOMAIN disk : KindWanted(disk[i], HasHooks(bundle.Hooks))

\* a file was written for the item of this kind
Written(kind, item) ==
    \E i \in DOMAIN disk : disk[i].op = "write" /\ disk[i].kind = kind /\ disk[i].item = item

\* every skill, command and agent of the Bundle that the tool has a directory
\* for was written
ItemsWritten(config) ==
    /\ config.SkillsDir # "" => \A i \in DOMAIN bundle.Skills : Written("skill", bundle.Skills[i])
    /\ config.CommandsDir # "" =>
          \A i \in DOMAIN bundle.Commands : Written("command", bundle.Commands[i])
    /\ config.AgentsDir # "" => \A i \in DOMAIN bundle.Agents : Written("agent", bundle.Agents[i])

\* C22: after a Generate that returned no error, every item of every
\* non-empty collection (skills, commands, agents, context) for which the
\* tool's ToolConfig has a path was written, whatever the hooks and MCP
\* Configs hold.
C22_GenerateWritesEveryItem ==
    (generated.op = "Generate" /\ generated.err = NoError) =>
        /\ ItemsWritten(DefaultToolConfigs[generated.tool])
        /\ (bundle.Context # "" /\ DefaultToolConfigs[generated.tool].ContextFile # "") =>
              Written("context", "")

\* what the code does keep of C22: the skills, commands and agents are
\* written, and the context when a converter is registered for the tool
C22_GenerateWritesWhereRegistered ==
    (generated.op = "Generate" /\ generated.err = NoError) =>
        /\ ItemsWritten(DefaultToolConfigs[generated.tool])
        /\ ( /\ bundle.Context # ""
             /\ DefaultToolConfigs[generated.tool].ContextFile # ""
             /\ generated.tool \in RegisteredAdapters.context ) => Written("context", "")

\* the file paths a ToolConfig declares for the plugin manifest, the hooks,
\* the MCP servers and the context, by component
DeclaredPaths(outputDir, config) ==
    LET dirOf == [plugin |-> config.PluginDir, hooks |-> config.HooksDir,
                  mcp |-> config.MCPDir, context |-> config.ContextDir]
        fileOf == [plugin |-> config.PluginFile, hooks |-> config.HooksFile,
                   mcp |-> config.MCPFile, context |-> config.ContextFile]
        declared == {k \in {"plugin", "hooks", "mcp"} : dirOf[k] # ""} \cup
                    {k \in {"context"} : fileOf[k] # ""}
    IN  [k \in declared |-> Join(Join(outputDir, dirOf[k]), fileOf[k])]

PairwiseDistinct(paths) ==
    \A k1, k2 \in DOMAIN paths : paths[k1] = paths[k2] => k1 = k2

\* no file is written twice
NoOverwrite(done) ==
    \A i, j \in DOMAIN done :
        (done[i].op = "write" /\ done[j].op = "write" /\ done[i].path = done[j].path) => i = j

\* C29: one Generate writes no path twice, and the plugin, hooks, MCP and
\* context paths that the tool's ToolConfig declares are pairwise distinct.
C29_OutputPathsDistinct ==
    (generated.op = "Generate" /\ generated.tool \in DOMAIN DefaultToolConfigs) =>
        /\ NoOverwrite(disk)
        /\ PairwiseDistinct(DeclaredPaths(generated.outputDir, DefaultToolConfigs[generated.tool]))

\* what the code does keep of C29: no Generate writes a path twice, and the
\* declared paths are distinct for every tool but cursor, whose hooks and
\* context are both declared at .cursorrules
C29_NoOverwriteAsRegistered ==
    /\ generated.op = "Generate" => NoOverwrite(disk)
    /\ \A t \in DOMAIN DefaultToolConfigs \ {"cursor"} :
          PairwiseDistinct(DeclaredPaths(OutputDir, DefaultToolConfigs[t]))
    /\ LET paths == DeclaredPaths(OutputDir, DefaultToolConfigs["cursor"])
       IN  /\ paths["hooks"] = paths["context"]
           /\ PairwiseDistinct([k \in DOMAIN paths \ {"context"} |-> paths[k]])

----------------------------------------------------------------------------
(* A hooks file is read, by an adapter's ReadFile or by core.ReadFile *)

TestPaths == {"settings.json", ".cursor/hooks.json", "/nonexistent/path/settings.json"}

\* "core" stands for the package function ReadFile, which reads the canonical
\* format
Readers == Tools \cup {"core"}

\* what the file at the path holds: nothing that can be read, bytes that are
\* no JSON, an empty object, or a config in the format of the reader
FileContents(t) ==
    {NoFile, MalformedBytes, Bytes(EmptyMap)} \cup
    (IF t = "core"
     THEN {Bytes("hooks" :> ("before_command" :>
                << "hooks" :> << ("type" :> "command") @@ ("command" :> "a") >> >>))}
     ELSE UNION { {AdapterMarshal(t, c, order)[1] : order \in Orders(DOMAIN c.Hooks)} :
                  c \in TestConfigs \cup BundleHooks })

InitReadFile ==
    /\ cfg = NewConfig
    /\ tool \in Readers
    /\ data \in FileContents(tool)
    /\ marshalErr = NoError
    /\ parsed = NewConfig
    /\ parseErr = NoError
    /\ pc = "file"
    /\ MappingIdle
    /\ RegistryIdle
    /\ validated = NoValidation
    /\ path \in TestPaths
    /\ bundle = New("b")
    /\ disk = << >>
    /\ generated = NoGenerate
    /\ shared = {}

DoAdapterReadFile ==
    /\ pc = "file"
    /\ tool \in Tools
    /\ \E order \in Orders(IF data = NoFile \/ ~data.valid THEN {} ELSE NativeEvents(data)) :
          /\ parsed' = AdapterReadFile(tool, path, data, order)[1]
          /\ parseErr' = AdapterReadFile(tool, path, data, order)[2]
    /\ pc' = "read"
    /\ UNCHANGED << cfg, tool, data, marshalErr, mappingVars, registryVars, call, outerVars >>

DoReadFile ==
    /\ pc = "file"
    /\ tool = "core"
    /\ parsed' = ReadFile(path, data)[1]
    /\ parseErr' = ReadFile(path, data)[2]
    /\ pc' = "read"
    /\ UNCHANGED << cfg, tool, data, marshalErr, mappingVars, registryVars, call, outerVars >>

NextReadFile == DoAdapterReadFile \/ DoReadFile

SpecReadFile == InitReadFile /\ [][NextReadFile]_vars

\* the file was read and held bytes that do not decode
DecodeFailed == pc = "read" /\ data # NoFile /\ ~data.valid

\* C19: every failure to decode the bytes of a file, whichever ReadFile read
\* it, is reported as a ParseError with the tool name as Format and the path of
\* the file.
C19_DecodeFailureIsParseError ==
    DecodeFailed =>
        /\ parseErr.kind = "ParseError"
        /\ parseErr.Format = tool
        /\ parseErr.Path = path

\* what the code does keep of C19: the ReadFile of every adapter reports a
\* file it cannot read or decode as a ParseError with its name and the path
C19_AdapterReadFileIsParseError ==
    (pc = "read" /\ tool \in Tools /\ (data = NoFile \/ ~data.valid)) =>
        parseErr = ParseError(tool, path)

----------------------------------------------------------------------------
(* Entries with and without a matcher, under the events that have a default *)
(* Claude matcher and under events that have none                           *)

MatcherEvents ==
    { Event.BeforeCommand, Event.AfterCommand, Event.BeforeFileRead, Event.AfterFileRead,
      Event.BeforeFileWrite, Event.AfterFileWrite, Event.BeforeMCP, Event.OnStop,
      Event.AfterResponse }

DoAddHookUnderMatcher ==
    /\ pc = "build"
    /\ HookCount(cfg) < MaxHooks
    /\ \E event \in MatcherEvents, matcher \in {"", "mcp__fs"},
          hook \in {NewCommandHook("a"), NewPromptHook("p")} :
          cfg' = AddHookWithMatcher(cfg, event, matcher, hook)
    /\ UNCHANGED << tool, data, marshalErr, parsed, parseErr, pc, mappingVars, registryVars, call, outerVars >>

NextMatcher == DoAddHookUnderMatcher \/ DoMarshal

SpecMatcher == Init /\ [][NextMatcher]_vars

\* the matcher a Claude entry is expected to carry
ExpectedMatcher(event, entry) ==
    IF entry.Matcher # "" THEN entry.Matcher
    ELSE IF event \in {Event.BeforeCommand, Event.AfterCommand} THEN "Bash"
    ELSE IF event \in {Event.BeforeFileRead, Event.AfterFileRead} THEN "Read"
    ELSE IF event \in {Event.BeforeFileWrite, Event.AfterFileWrite} THEN "Write|Edit"
    ELSE ""

\* matcher, commands and prompts of the entries expected for one canonical event
ExpectedEntries(event) ==
    [i \in DOMAIN cfg.Hooks[event] |->
        << ExpectedMatcher(event, cfg.Hooks[event][i]),
           [j \in DOMAIN cfg.Hooks[event][i].Hooks |->
               << cfg.Hooks[event][i].Hooks[j].Command, cfg.Hooks[event][i].Hooks[j].Prompt >>] >>]

\* matcher, commands and prompts of the entries emitted under one native event
EmittedEntries(ne) ==
    LET items == MapGet(Field(data.doc, "hooks", EmptyMap), ne)
    IN  [i \in DOMAIN items |->
            << Field(items[i], "matcher", ""),
               [j \in DOMAIN items[i]["hooks"] |->
                   << Field(items[i]["hooks"][j], "command", ""),
                      Field(items[i]["hooks"][j], "prompt", "") >>] >>]

\* the canonical events of the Config that Claude files under the native event
FiledAs(ne) ==
    {e \in DOMAIN cfg.Hooks : Supports(claude_AdapterName, e) /\ claude_eventMapping[e] = ne}

\* C20: in the Claude output every entry carries the canonical entry's own
\* matcher when it has one, else the default matcher of its canonical event:
\* "Bash" for the command events, "Read" for the file-read events, "Write|Edit"
\* for the file-write events, none for the others.
C20_EntryMatcherElseDefault ==
    (pc = "marshalled" /\ tool = claude_AdapterName) =>
        \A ne \in ClaudeNativeEvents :
            \E order \in Orders(FiledAs(ne)) :
                EmittedEntries(ne) = Flatten([k \in DOMAIN order |-> ExpectedEntries(order[k])])

\* one entry with its own matcher under a file-write event and one without a
\* matcher under a file-read event were converted
C20_Witness ==
    /\ pc = "marshalled"
    /\ tool = claude_AdapterName
    /\ \E en \in Range(MapGet(cfg.Hooks, Event.BeforeFileWrite)) : en.Matcher = "mcp__fs"
    /\ \E en \in Range(MapGet(cfg.Hooks, Event.AfterFileRead)) : en.Matcher = ""
    /\ << "Read", << << "a", "" >> >> >> \in Range(EmittedEntries(PostToolUse))

----------------------------------------------------------------------------
(* The events a tool supports: the README's table, GetToolSupport, the      *)
(* adapters' event mappings and SupportedEvents, FilterByTool               *)

\* README, "Supported Events": one row for each of fifteen events
README_SupportedEvents ==
    (Event.BeforeFileRead :> ToolSupport(TRUE, TRUE, TRUE)) @@
    (Event.AfterFileRead :> ToolSupport(TRUE, TRUE, TRUE)) @@
    (Event.BeforeFileWrite :> ToolSupport(TRUE, TRUE, TRUE)) @@
    (Event.AfterFileWrite :> ToolSupport(TRUE, TRUE, TRUE)) @@
    (Event.BeforeCommand :> ToolSupport(TRUE, TRUE, TRUE)) @@
    (Event.AfterCommand :> ToolSupport(TRUE, TRUE, TRUE)) @@
    (Event.BeforeMCP :> ToolSupport(TRUE, TRUE, TRUE)) @@
    (Event.AfterMCP :> ToolSupport(TRUE, TRUE, TRUE)) @@
    (Event.BeforePrompt :> ToolSupport(TRUE, FALSE, TRUE)) @@
    (Event.OnStop :> ToolSupport(TRUE, TRUE, FALSE)) @@
    (Event.OnSessionStart :> ToolSupport(TRUE, FALSE, FALSE)) @@
    (Event.OnSessionEnd :> ToolSupport(TRUE, FALSE, FALSE)) @@
    (Event.AfterResponse :> ToolSupport(FALSE, TRUE, FALSE)) @@
    (Event.AfterThought :> ToolSupport(FALSE, TRUE, FALSE)) @@
    (Event.OnPermission :> ToolSupport(TRUE, FALSE, FALSE))

InitSupport ==
    /\ PipelineIdle
    /\ pc = "build"
    /\ MappingIdle
    /\ RegistryIdle
    /\ OuterIdle

\* a command hook under any canonical event
DoAddEventHook ==
    /\ pc = "build"
    /\ HookCount(cfg) < MaxHooks
    /\ \E event \in Range(AllEvents) : cfg' = AddHook(cfg, event, NewCommandHook("a"))
    /\ UNCHANGED << tool, data, marshalErr, parsed, parseErr, pc, mappingVars, registryVars, call, outerVars >>

\* f := c.FilterByTool(tool); parsed is f
DoFilterByTool ==
    /\ pc = "build"
    /\ \E t \in Tools :
          /\ tool' = t
          /\ parsed' = FilterByTool(cfg, t)
          /\ shared' = FilterByTool_Shares(cfg, t)
    /\ pc' = "filtered"
    /\ UNCHANGED << cfg, data, marshalErr, parseErr, mappingVars, registryVars, call,
                    validated, path, bundle, disk, generated >>

NextSupport == DoAddEventHook \/ DoMarshal \/ DoFilterByTool

SpecSupport == InitSupport /\ [][NextSupport]_vars

\* the event mapping of a tool's adapter
EventMappingOf(t) ==
    CASE t = claude_AdapterName   -> claude_eventMapping
      [] t = cursor_AdapterName   -> cursor_eventMapping
      [] t = windsurf_AdapterName -> windsurf_eventMapping

\* the hooks of cfg under the events that a table of support gives to the tool
HooksWhere(table, t) ==
    {pos \in HookPositions(cfg) : pos[1] \in DOMAIN table /\ SupportedBy(table[pos[1]], t)}

\* C21: for every event of the README's table and every tool, GetToolSupport
\* gives the row of the table and the tool's event mapping has the event exactly
\* when the table says so: of a Config over the table's events, Marshal keeps
\* the hooks of the events the table gives to the tool and no others.
C21_SupportAsDocumented ==
    (pc = "marshalled" /\ DOMAIN cfg.Hooks \subseteq DOMAIN README_SupportedEvents) =>
        /\ \A e \in DOMAIN cfg.Hooks :
              /\ GetToolSupport(e) = README_SupportedEvents[e]
              /\ e \in DOMAIN EventMappingOf(tool) <=> SupportedBy(README_SupportedEvents[e], tool)
        /\ DocHookTotal(data) = Cardinality(HooksWhere(README_SupportedEvents, tool))

\* the rows of the table that the code follows: all but after_file_read,
\* before_file_write and before_prompt
README_Followed ==
    [e \in DOMAIN README_SupportedEvents \
            {Event.AfterFileRead, Event.BeforeFileWrite, Event.BeforePrompt} |->
        README_SupportedEvents[e]]

\* C21, the part that holds: the same over the twelve other rows of the table;
\* for Claude and Windsurf the whole table is followed
C21_SupportAsDocumentedElsewhere ==
    pc = "marshalled" =>
        /\ DOMAIN cfg.Hooks \subseteq DOMAIN README_Followed =>
              /\ \A e \in DOMAIN cfg.Hooks :
                    /\ GetToolSupport(e) = README_Followed[e]
                    /\ e \in DOMAIN EventMappingOf(tool) <=> SupportedBy(README_Followed[e], tool)
              /\ DocHookTotal(data) = Cardinality(HooksWhere(README_Followed, tool))
        /\ (tool # cursor_AdapterName /\ DOMAIN cfg.Hooks \subseteq DOMAIN README_SupportedEvents) =>
              /\ \A e \in DOMAIN cfg.Hooks :
                    e \in DOMAIN EventMappingOf(tool) <=> SupportedBy(README_SupportedEvents[e], tool)
              /\ DocHookTotal(data) = Cardinality(HooksWhere(README_SupportedEvents, tool))

----------------------------------------------------------------------------
(* A Claude settings file is converted to Cursor and the result parsed back *)

\* hooks as a Claude file holds them: two command hooks, a command hook
\* without a type and a prompt hook
ClaudeFileHooks ==
    { ("type" :> "command") @@ ("command" :> "x"),
      ("type" :> "command") @@ ("command" :> "y"),
      "command" :> "z",
      ("type" :> "prompt") @@ ("prompt" :> "p") }

\* the Claude document with one more hook under a native event: the hook joins
\* the last entry of the event when that has the matcher
ClaudeAppend(doc, ne, nm, hook) ==
    LET m     == Field(doc, "hooks", EmptyMap)
        items == MapGet(m, ne)
        last  == items[Len(items)]
        added == IF items # << >> /\ Field(last, "matcher", "") = nm
                 THEN [items EXCEPT ![Len(items)] =
                          ("hooks" :> Append(last["hooks"], hook)) @@ last]
                 ELSE Append(items, OmitEmpty("matcher", nm, "") @@ ("hooks" :> << hook >>))
    IN  ("hooks" :> MapPut(m, ne, added)) @@ doc

\* the three adapters have registered themselves
InitCrossTool ==
    /\ cfg = NewConfig
    /\ tool = claude_AdapterName
    /\ data = Bytes(EmptyMap)
    /\ marshalErr = NoError
    /\ parsed = NewConfig
    /\ parseErr = NoError
    /\ pc = "native"
    /\ MappingIdle
    /\ adapters = [t \in Tools |-> [Name |-> t, Id |-> 1]]
    /\ mu = RWMutex
    /\ goroutines = [g \in Goroutines |-> IdleGoroutine]
    /\ registered = << >>
    /\ call = NoCall
    /\ OuterIdle

DoClaudeHook ==
    /\ pc = "native"
    /\ DocHookTotal(data) < MaxHooks
    /\ \E ne \in {PreToolUse, PostToolUse, "Stop"}, nm \in {"", "Bash", "Read"},
          hook \in ClaudeFileHooks :
          data' = Bytes(ClaudeAppend(data.doc, ne, nm, hook))
    /\ UNCHANGED << cfg, tool, marshalErr, parsed, parseErr, pc, mappingVars,
                    registryVars, call, outerVars >>

\* cursorData, err := Convert(claudeJSON, "claude", "cursor")
DoConvertToCursor ==
    /\ pc = "native"
    /\ \E parseOrder \in Orders(NativeEvents(data)) :
       \E marshalOrder \in MarshalOrders(data, claude_AdapterName, parseOrder) :
          LET returns(result) ==
                 call' = [kind |-> "AdapterRegistry", bytes |-> data,
                          from |-> claude_AdapterName, to |-> cursor_AdapterName,
                          known |-> DOMAIN adapters, out |-> result[1], err |-> result[2]]
          IN  returns(AdapterRegistry_Convert(adapters, data, claude_AdapterName,
                                              cursor_AdapterName, parseOrder, marshalOrder))
    /\ pc' = "converted"
    /\ UNCHANGED << pipelineVars, mappingVars, registryVars, outerVars >>

\* cfg, err := cursorAdapter.Parse(cursorData)
DoParseConverted ==
    /\ pc = "converted"
    /\ call.err = NoError
    /\ \E order \in Orders(NativeEvents(call.out)) :
          LET returns(result) == parsed' = result[1] /\ parseErr' = result[2]
          IN  returns(cursor_Parse(call.out, order))
    /\ pc' = "parsed"
    /\ UNCHANGED << cfg, tool, data, marshalErr, mappingVars, registryVars, call, outerVars >>

NextCrossTool == DoClaudeHook \/ DoConvertToCursor \/ DoParseConverted

SpecCrossTool == InitCrossTool /\ [][NextCrossTool]_vars

\* the commands of the hooks that the Claude file holds under a native event
\* in the entries with one of the matchers, in the order of the file
ClaudeFileCommands(ne, matchers) ==
    LET items == MapGet(Field(data.doc, "hooks", EmptyMap), ne)
        commands(hs) == [j \in DOMAIN hs |-> Field(hs[j], "command", "")]
    IN  SelectSeq(Flatten([i \in DOMAIN items |->
                              IF Field(items[i], "matcher", "") \in matchers
                              THEN commands(items[i]["hooks"]) ELSE << >>]),
                  LAMBDA c : c # "")

\* where a Claude file keeps the hooks of the canonical events that Cursor
\* has too: << native event, matchers >>
ClaudeFiling ==
    (Event.BeforeCommand :> << PreToolUse, {"Bash"} >>) @@
    (Event.AfterCommand :> << PostToolUse, {"Bash"} >>) @@
    (Event.BeforeFileRead :> << PreToolUse, {"Read"} >>) @@
    (Event.BeforeMCP :> << PreToolUse, {""} >>) @@
    (Event.AfterMCP :> << PostToolUse, {""} >>) @@
    (Event.OnStop :> << "Stop", {"", "Bash", "Read"} >>)

CommandsBack(event) ==
    [i \in DOMAIN GetAllHooksForEvent(parsed, event) |->
        GetAllHooksForEvent(parsed, event)[i].Command]

\* C24: Convert(data, "claude", "cursor") succeeds, and the Cursor data parses
\* back to the command hooks of the Claude data: under BeforeCommand the
\* commands of the hooks under PreToolUse with the matcher "Bash", as many and
\* in the same order, and likewise under every other event both tools support.
C24_ClaudeToCursorKeepsCommands ==
    /\ pc = "converted" => call.err = NoError
    /\ pc = "parsed" =>
          /\ parseErr = NoError
          /\ CommandsBack(Event.BeforeCommand) = ClaudeFileCommands(PreToolUse, {"Bash"})
          /\ \A e \in DOMAIN ClaudeFiling :
                /\ CommandsBack(e) = ClaudeFileCommands(ClaudeFiling[e][1], ClaudeFiling[e][2])
                /\ \A h \in Range(GetAllHooksForEvent(parsed, e)) : IsCommand(h)

\* two command hooks of one "Bash" entry under PreToolUse came back in order
C24_Witness ==
    /\ pc = "parsed"
    /\ ClaudeFileCommands(PreToolUse, {"Bash"}) = << "x", "y" >>
    /\ Len(GetAllHooksForEvent(parsed, Event.BeforeCommand)) = 2
    /\ CommandsBack(Event.BeforeCommand) = << "x", "y" >>

----------------------------------------------------------------------------
(* context/core: the ConverterRegistry behind RegisterConverter and         *)
(* GetConverter, a map of converters by name with no lock.  The variable    *)
(* adapters is its map; a converter is a record like an adapter.            *)

InitConverters ==
    /\ PipelineIdle
    /\ pc = "converters"
    /\ MappingIdle
    /\ RegistryIdle
    /\ OuterIdle

\* RegisterConverter(converter): DefaultRegistry.Register goes to the map at once
CallRegisterConverter(g) ==
    /\ goroutines[g].pc = "idle"
    /\ Len(registered) + Cardinality(Registering) < MaxRegisters
    /\ \E converter \in TestAdapters :
          goroutines' = [goroutines EXCEPT ![g] =
              [IdleGoroutine EXCEPT !.pc = "access", !.op = "Register", !.adapter = converter]]
    /\ UNCHANGED << adapters, mu, registered, callerVars >>

\* GetConverter(name), as generateContext and ConvertTo call it:
\* DefaultRegistry.Get goes to the map at once
CallGetConverter(g) ==
    /\ goroutines[g].pc = "idle"
    /\ \E name \in {"claude", "cursor"} :
          goroutines' = [goroutines EXCEPT ![g] =
              [IdleGoroutine EXCEPT !.pc = "access", !.op = "GetAdapter", !.name = name]]
    /\ UNCHANGED << adapters, mu, registered, callerVars >>

\* the return of Register or Get
Return(g) ==
    /\ goroutines[g].pc = "unlock"
    /\ goroutines' = [goroutines EXCEPT ![g] = IdleGoroutine]
    /\ UNCHANGED << adapters, mu, registered, callerVars >>

NextConverters ==
    \/ \E g \in Goroutines : CallRegisterConverter(g)
    \/ \E g \in Goroutines : CallGetConverter(g)
    \/ \E g \in Goroutines : StoreBegin(g)
    \/ \E g \in Goroutines : StoreEnd(g)
    \/ \E g \in Goroutines : Load(g)
    \/ \E g \in Goroutines : Return(g)

SpecConverters == InitConverters /\ [][NextConverters]_vars

\* the goroutines that are at the map
AtMap == {g \in Goroutines : goroutines[g].pc \in {"access", "store"}}

\* C25: the converter registry is safe under concurrent registration and
\* lookup: a goroutine that registers is alone at the map, and nothing is read
\* or written while another goroutine writes.
C25_ConverterRegistryExclusive ==
    /\ \A g, h \in AtMap : (g # h) => (goroutines[g].op # "Register" /\ goroutines[h].op # "Register")
    /\ \A g \in Goroutines : ~goroutines[g].ret.raced

\* what does hold: lookups on their own do not race, a race takes a
\* registration that is under way or has been made
C25_LookupsAloneDoNotRace ==
    (registered = << >> /\ Registering = {}) => \A g \in Goroutines : ~goroutines[g].ret.raced

----------------------------------------------------------------------------
(* c is built with AddHook, f := c.FilterByTool(tool), and then both are    *)
(* changed.  Every entries slice here is full (one entry from AddHook, more *)
(* from one append), so an append to it takes a new array.                  *)

FilterEvents == {Event.BeforeCommand, Event.OnStop, Event.AfterResponse}

\* the Configs merged into c or f after the filter
FilterMergeConfigs ==
    { NilConfig, [NewConfig EXCEPT !.DisableAllHooks = TRUE],
      AddHookWithMatcher(NewConfig, Event.BeforeCommand, "Bash", NewCommandHook("m")) }

Sides == {"c", "f"}

DoAddHookBefore ==
    /\ pc = "build"
    /\ HookCount(cfg) < MaxHooks
    /\ \E event \in FilterEvents : cfg' = AddHook(cfg, event, NewCommandHook("a"))
    /\ UNCHANGED << tool, data, marshalErr, parsed, parseErr, pc, mappingVars, registryVars, call, outerVars >>

\* c.AddHookWithMatcher or f.AddHookWithMatcher (AddHook with the matcher ""):
\* a new entry goes to a new array, a hook for an entry that is there is
\* assigned in place
DoAddHookAfter(side) ==
    /\ pc = "filtered"
    /\ HookCount(IF side = "c" THEN cfg ELSE parsed) < MaxHooks
    /\ \E event \in FilterEvents, matcher \in {"", "Bash"} :
          LET hook == NewCommandHook("n")
          IN  /\ cfg' = IF side = "c" THEN AddHookWithMatcher(cfg, event, matcher, hook)
                        ELSE AddHookWithMatcher_Seen(cfg, shared, parsed, event, matcher, hook)
              /\ parsed' = IF side = "f" THEN AddHookWithMatcher(parsed, event, matcher, hook)
                           ELSE AddHookWithMatcher_Seen(parsed, shared, cfg, event, matcher, hook)
              /\ shared' = IF AddHookWithMatcher_InPlace(IF side = "c" THEN cfg ELSE parsed,
                                                         event, matcher)
                           THEN shared ELSE shared \ {event}
    /\ UNCHANGED << tool, data, marshalErr, parseErr, pc, mappingVars, registryVars, call,
                    validated, path, bundle, disk, generated >>

\* c.Merge(other) or f.Merge(other): append gives the events of other a new array
DoMergeAfter(side) ==
    /\ pc = "filtered"
    /\ \E other \in FilterMergeConfigs :
          /\ HookCount(IF side = "c" THEN cfg ELSE parsed) + OtherCount(other) <= MaxHooks
          /\ \E order \in Orders(OtherEvents(other)) :
                /\ cfg' = IF side = "c" THEN Merge(cfg, other, order) ELSE cfg
                /\ parsed' = IF side = "f" THEN Merge(parsed, other, order) ELSE parsed
          /\ shared' = shared \ OtherEvents(other)
    /\ UNCHANGED << tool, data, marshalErr, parseErr, pc, mappingVars, registryVars, call,
                    validated, path, bundle, disk, generated >>

\* c.RemoveHooks(event) or f.RemoveHooks(event)
DoRemoveHooksAfter(side) ==
    /\ pc = "filtered"
    /\ \E event \in FilterEvents :
          /\ cfg' = IF side = "c" THEN RemoveHooks(cfg, event) ELSE cfg
          /\ parsed' = IF side = "f" THEN RemoveHooks(parsed, event) ELSE parsed
          /\ shared' = shared \ {event}
    /\ UNCHANGED << tool, data, marshalErr, parseErr, pc, mappingVars, registryVars, call,
                    validated, path, bundle, disk, generated >>

NextFilter ==
    \/ DoAddHookBefore
    \/ DoFilterByTool
    \/ \E side \in Sides : DoAddHookAfter(side)
    \/ \E side \in Sides : DoMergeAfter(side)
    \/ \E side \in Sides : DoRemoveHooksAfter(side)

SpecFilter == InitSupport /\ [][NextFilter]_vars

\* C26: the Config that FilterByTool returns is independent of the receiver:
\* a call of AddHook, AddHookWithMatcher, Merge or RemoveHooks on f leaves c
\* as it was, and such a call on c leaves f as it was.
C26_FilteredIsIndependent ==
    [][(pc = "filtered" /\ pc' = "filtered") => (cfg' = cfg \/ parsed' = parsed)]_vars

\* what does hold: the two change together only by a hook added to an entry
\* that both had when f was made; Merge, RemoveHooks and a hook under a new
\* matcher or a new event change one of them alone
C26_OnlyCommonEntriesLeak ==
    [][(pc = "filtered" /\ pc' = "filtered" /\ cfg' # cfg /\ parsed' # parsed) =>
          \E e \in shared :
              /\ HookCount(cfg') = HookCount(cfg) + 1
              /\ cfg'.Hooks[e] = parsed'.Hooks[e]
              /\ Len(cfg'.Hooks[e]) = Len(cfg.Hooks[e])
              /\ \A x \in DOMAIN cfg.Hooks \ {e} : cfg'.Hooks[x] = cfg.Hooks[x]]_vars

----------------------------------------------------------------------------
(* A Config whose Hooks map is nil: the zero value &Config{}, or what       *)
(* core.ReadFile decodes from a document that has no hooks key              *)

ZeroConfig == [Version |-> 0, Hooks |-> NilMap,
               DisableAllHooks |-> FALSE, AllowManagedHooksOnly |-> FALSE]

\* documents without a hooks key
NilMapFiles == {Bytes(EmptyMap), Bytes("version" :> 1), Bytes("disableAllHooks" :> TRUE)}

NilMapEvents == {Event.BeforeCommand, Event.OnStop}

NilMapHooks == {NewCommandHook("a"), [Hook EXCEPT !.Type = "prompt"]}

\* the operation that was called last, and what a query returned
Called(op, out) == [NoCall EXCEPT !.kind = op, !.out = out]

InitNilMap ==
    /\ cfg \in {ZeroConfig} \cup {ReadFile("hooks.json", f)[1] : f \in NilMapFiles}
    /\ tool = ""
    /\ data = Bytes(EmptyMap)
    /\ marshalErr = NoError
    /\ parsed = NewConfig
    /\ parseErr = NoError
    /\ pc = "build"
    /\ MappingIdle
    /\ RegistryIdle
    /\ OuterIdle

DoNilAddHook ==
    /\ pc = "build"
    /\ HookCount(cfg) < MaxHooks
    /\ \E event \in NilMapEvents, hook \in NilMapHooks :
          cfg' = AddHook(cfg, event, hook)
    /\ call' = Called("AddHook", NilBytes)
    /\ UNCHANGED << tool, data, marshalErr, parsed, parseErr, pc, mappingVars, adapters, mu, goroutines, registered, outerVars >>

DoNilAddHookWithMatcher ==
    /\ pc = "build"
    /\ HookCount(cfg) < MaxHooks
    /\ \E event \in NilMapEvents, hook \in NilMapHooks :
          cfg' = AddHookWithMatcher(cfg, event, "Bash", hook)
    /\ call' = Called("AddHookWithMatcher", NilBytes)
    /\ UNCHANGED << tool, data, marshalErr, parsed, parseErr, pc, mappingVars, adapters, mu, goroutines, registered, outerVars >>

\* c.Merge(other); a panic ends the program, with c as it was
DoNilMerge ==
    /\ pc = "build"
    /\ \E other \in MergeConfigs \cup {ZeroConfig} :
          /\ HookCount(cfg) + OtherCount(other) <= MaxHooks
          /\ parsed' = other
          /\ \E order \in Orders(OtherEvents(other)) :
                IF Merge(cfg, other, order) = NilMapPanic
                THEN cfg' = cfg /\ pc' = "panicked"
                ELSE cfg' = Merge(cfg, other, order) /\ pc' = pc
    /\ call' = Called("Merge", NilBytes)
    /\ UNCHANGED << tool, data, marshalErr, parseErr, mappingVars, adapters, mu, goroutines, registered, outerVars >>

DoNilRemoveHooks ==
    /\ pc = "build"
    /\ \E event \in NilMapEvents : cfg' = RemoveHooks(cfg, event)
    /\ call' = Called("RemoveHooks", NilBytes)
    /\ UNCHANGED << tool, data, marshalErr, parsed, parseErr, pc, mappingVars, adapters, mu, goroutines, registered, outerVars >>

DoNilHookCount ==
    /\ pc = "build"
    /\ call' = Called("HookCount", HookCount(cfg))
    /\ UNCHANGED << pipelineVars, pc, mappingVars, adapters, mu, goroutines, registered, outerVars >>

DoNilFilterByTool ==
    /\ pc = "build"
    /\ \E t \in {"claude", "windsurf"} :
          call' = Called("FilterByTool", FilterByTool(cfg, t))
    /\ UNCHANGED << pipelineVars, pc, mappingVars, adapters, mu, goroutines, registered, outerVars >>

DoNilValidate ==
    /\ pc = "build"
    /\ \E order \in Orders(Keys(cfg.Hooks)) :
          call' = Called("Validate", Validate(cfg, order))
    /\ UNCHANGED << pipelineVars, pc, mappingVars, adapters, mu, goroutines, registered, outerVars >>

NextNilMap ==
    \/ DoNilAddHook
    \/ DoNilAddHookWithMatcher
    \/ DoNilMerge
    \/ DoNilRemoveHooks
    \/ DoNilHookCount
    \/ DoNilFilterByTool
    \/ DoNilValidate

SpecNilMap == InitNilMap /\ [][NextNilMap]_vars

\* C27: no operation on a Config with a nil Hooks map panics, and a Merge of a
\* Config that has hooks into it leaves it with as many hooks as that Config
C27_NilMapOperationsComplete ==
    [][cfg.Hooks = NilMap =>
          /\ pc' # "panicked"
          /\ (call'.kind = "Merge" /\ OtherEvents(parsed') # {}) =>
                HookCount(cfg') = HookCount(parsed')]_vars

\* what the code does keep of C27: the one operation that panics on a nil map
\* is a Merge of a Config that has events; AddHook and AddHookWithMatcher make
\* the map, and the others and a Merge of nothing leave it nil
C27_OnlyMergeOfEventsPanics ==
    [][cfg.Hooks = NilMap =>
          /\ pc' = "panicked" <=> (call'.kind = "Merge" /\ OtherEvents(parsed') # {})
          /\ call'.kind \in {"AddHook", "AddHookWithMatcher"} => HookCount(cfg') = 1
          /\ call'.kind \in {"RemoveHooks", "HookCount", "FilterByTool", "Validate"} =>
                cfg' = cfg
          /\ call'.kind = "HookCount" => call'.out = 0
          /\ call'.kind = "FilterByTool" => call'.out.Hooks = EmptyMap
          /\ call'.kind = "Validate" => call'.out = NoError]_vars

----------------------------------------------------------------------------
(* Marshal called again on the same Config: the range over cfg.Hooks may    *)
(* visit the events in another order                                        *)

\* what Marshal may return for a Config
MarshalOutputs(t, c) == {AdapterMarshal(t, c, order)[1] : order \in Orders(DOMAIN c.Hooks)}

\* the events of the Config that the tool writes, and whether two of them are
\* written under one native event
Written_Events(t, c) == {e \in DOMAIN c.Hooks : Supports(t, e)}

SharesNativeEvent(t, c) ==
    \E e1, e2 \in Written_Events(t, c) : e1 # e2 /\ NativeName(t, e1) = NativeName(t, e2)

\* C28: every call of Marshal on the Config gives the bytes that the first gave
C28_MarshalIsDeterministic ==
    pc = "marshalled" => MarshalOutputs(tool, cfg) = {data}

\* what the code does keep of C28: the bytes are the same when no two events of
\* the Config go to one native event, as is always so for Cursor and Windsurf
C28_DeterministicPerNativeEvent ==
    pc = "marshalled" =>
        /\ ~SharesNativeEvent(tool, cfg) => MarshalOutputs(tool, cfg) = {data}
        /\ SharesNativeEvent(tool, cfg) => tool = claude_AdapterName

----------------------------------------------------------------------------
(* The three views of which tool has which event: GetToolSupport, the       *)
(* adapters' event mappings and their SupportedEvents                       *)

\* the events of a Config that the tool's FromCore writes
Emitted(t, c) == {e \in DOMAIN c.Hooks : e \in DOMAIN EventMappingOf(t)}

\* C30: for every canonical event and every tool, GetToolSupport gives the
\* event to the tool exactly when the tool's event mapping has it and exactly
\* when the tool's SupportedEvents lists it; so FilterByTool keeps the events
\* that Marshal writes, and Marshal of the filtered Config gives what Marshal
\* of the whole Config gives.
C30_SupportViewsAgree ==
    /\ \A t \in Tools : \A e \in Range(AllEvents) :
          /\ SupportedBy(GetToolSupport(e), t) <=> e \in DOMAIN EventMappingOf(t)
          /\ SupportedBy(GetToolSupport(e), t) <=> e \in Range(AdapterSupportedEvents(t))
    /\ pc = "filtered" =>
          /\ DOMAIN parsed.Hooks = Emitted(tool, cfg)
          /\ MarshalOutputs(tool, parsed) = MarshalOutputs(tool, cfg)
    /\ pc = "marshalled" =>
          NativeEvents(data) = {NativeName(tool, e) : e \in DOMAIN FilterByTool(cfg, tool).Hooks}

\* FilterByTool dropped one event of the Config and kept another
C30_Witness ==
    /\ pc = "filtered"
    /\ tool = windsurf_AdapterName
    /\ DOMAIN cfg.Hooks = {Event.BeforeCommand, Event.OnStop}
    /\ DOMAIN parsed.Hooks = {Event.BeforeCommand}

============================================================================
